---- MODULE Spec2Model ----
(***************************************************************************)
(* A model of the form-field validation helper (Validator,                *)
(* ValidationTarget, ValidationFunction and the helper functions) of      *)
(* src/unnamed/part_000.                                                   *)
(*                                                                         *)
(* Strings are sequences of tokens; concatenation is \o.  The values of    *)
(* controls are sequences of one-character tokens, so Len is the string's  *)
(* length and " " is the whitespace character.                             *)
(***************************************************************************)
EXTENDS Integers, Sequences, FiniteSets, TLC

(***************************************************************************)
(* Enumerations of Validator.prototype.                                    *)
(***************************************************************************)
PASS == 0
WARN == 1
FAIL == 2

NONE == 0
ICON == 1
HIGHLIGHT == 2
HELP == 4
SUMMARY == 8
DISABLE == 16

\* What undefined-- and NaN++ evaluate to.  Real counts are >= 1, so the
\* number cannot be mistaken for one.
NaN == -1

(***************************************************************************)
(* Bounds of the model.                                                    *)
(***************************************************************************)
\* the most messages a target holds when SpecDirect calls fail or warn on it
MaxDirect == 1
\* the most addValidation calls, and the most removeValidation calls, SpecRef
\* makes for one rule and one (trigger, event) pair
MaxCalls == 2

(***************************************************************************)
(* JavaScript arithmetic on the values used here.                          *)
(***************************************************************************)
RECURSIVE BitAnd(_, _)
BitAnd(a, b) ==
    IF a = 0 \/ b = 0 THEN 0
    ELSE (a % 2) * (b % 2) + 2 * BitAnd(a \div 2, b \div 2)

RECURSIVE BitOr(_, _)
BitOr(a, b) ==
    IF a = 0 THEN b
    ELSE IF b = 0 THEN a
    ELSE (IF a % 2 = 1 \/ b % 2 = 1 THEN 1 ELSE 0) + 2 * BitOr(a \div 2, b \div 2)

\* x++ and x-- on a reference count (a number or NaN)
JsInc(x) == IF x = NaN THEN NaN ELSE x + 1
JsDec(x) == IF x = NaN THEN NaN ELSE x - 1
\* x < 1, false for NaN
JsLessThanOne(x) == x # NaN /\ x < 1
\* x < y, false when either is NaN
JsLessThan(x, y) == x # NaN /\ y # NaN /\ x < y

(***************************************************************************)
(* Maps (JavaScript objects used as dictionaries) as functions.            *)
(***************************************************************************)
EmptyMap == [k \in {} |-> 0]
Put(f, k, v) == [x \in (DOMAIN f) \cup {k} |-> IF x = k THEN v ELSE f[x]]
Drop(f, k) == [x \in (DOMAIN f) \ {k} |-> f[x]]

\* Object.size
Size(obj) == Cardinality(DOMAIN obj)

(***************************************************************************)
(* The page: two controls, c1 a text input with a label, c2 a select, and  *)
(* two radio buttons r1 and r2 that have no id and share a name.           *)
(***************************************************************************)
Controls == {"c1", "c2"}
Radios == {"r1", "r2"}
Elements == Controls \cup Radios
Events == {"keyup", "change"}

\* the element's id attribute; "": none
IdAttr(c) == IF c \in Radios THEN "" ELSE c

tagName(c) == IF c = "c2" THEN "SELECT" ELSE "INPUT"

\* html of the label whose "for" is the control's id; <<>>: no such label
LabelHtml(c) == IF c = "c1" THEN <<"First", ":">> ELSE <<>>
\* the control's name attribute
NameAttr(c) ==
    IF c = "c2" THEN <<"state">> ELSE IF c \in Radios THEN <<"choice">> ELSE <<>>

\* control.id || control.name, the key of the targets map (a name is one token)
Identity(c) == IF IdAttr(c) # "" THEN IdAttr(c) ELSE NameAttr(c)[1]

SSID1 == <<"N", "G", "S", "0", "0", "1">>
SSID2 == <<"N", "G", "S", "0", "0", "2">>

\* what a user can type into the input
InputValues == {<<>>, <<" ">>, SSID1}

\* the options of the select: value and text
Options ==
    { [value |-> <<>>, text |-> <<"C", "h", "o", "o", "s", "e">>],
      [value |-> SSID1, text |-> <<" ">>] }

ValuesOf(c) ==
    IF tagName(c) = "SELECT" THEN {o.value : o \in Options} ELSE InputValues

\* the controls that lie in a container whose 'disabled' class is toggled
Disableable == {"c1"}

\* the answer of the facility lookup to a six-character id: the inactive
\* facility NGS001, the active facility NGS002, nothing else
Lookup(ssid) ==
    IF ssid = SSID1 THEN [schoolname |-> TRUE, active |-> FALSE]
    ELSE IF ssid = SSID2 THEN [schoolname |-> TRUE, active |-> TRUE]
    ELSE [schoolname |-> FALSE, active |-> FALSE]

VARIABLES
    value,              \* control -> $(control).val()
    disabledAncestor,   \* control -> $(control).parents('.disabled').length > 0
    targets,            \* Validator.targets, in insertion order
    handlers,           \* <<control, event>> -> the targets whose validate is bound, in order
    submitBehavior,     \* Validator.submitBehavior
    validationBehavior, \* Validator.validationBehavior
    submitButtons,      \* Validator.submitButtons.length
    clickWired,         \* the submit buttons' click handler calls isValid
    submitDisabled,     \* the submit buttons carry the class 'disabled'
    postValidation,     \* Validator.postValidation is assigned
    trace,              \* what the last operation did, in order, when it validated
    ledger,             \* <<target, rule, trigger, event>> -> the references a caller
                        \* holds: the addValidation calls not yet taken back by a
                        \* removeValidation (counted by SpecRef only)
    probe,              \* a call of isDate: its arguments and, once made, what it
                        \* computed (SpecDate); two numbers, an operator and the
                        \* buttons still to click to compute with them (SpecSum);
                        \* a second calculator, loaded when 'C' was clicked on
                        \* the first and clicked along with it (SpecTwin)
    calc,               \* the calculator page: acc, reg, op, err, decimal and the
                        \* display (SpecCalc only)
    run,                \* a target's validateAll in progress: the rules' locks and
                        \* the call stack (SpecLock only)
    view                \* control -> what setValidationResults left on the page:
                        \* highlight classes, icon, help text (SpecRender only)

vars == <<value, disabledAncestor, targets, handlers, submitBehavior,
          validationBehavior, submitButtons, clickWired, submitDisabled,
          postValidation, trace, ledger, probe, calc, run, view>>

(***************************************************************************)
(* Strings.                                                                *)
(***************************************************************************)
RECURSIVE TrimLeft(_)
TrimLeft(s) ==
    IF s # <<>> /\ Head(s) = " " THEN TrimLeft(Tail(s)) ELSE s

RECURSIVE TrimRight(_)
TrimRight(s) ==
    IF s # <<>> /\ s[Len(s)] = " " THEN TrimRight(SubSeq(s, 1, Len(s) - 1)) ELSE s

\* String.prototype.trim
Trim(s) == TrimRight(TrimLeft(s))

\* the slip of testing the string as it is, untrimmed
isEmptyUntrimmed(inputStr) == inputStr = <<>>

isEmpty(inputStr) == Trim(inputStr) = <<>>

\* s.replace(':', ''): the first colon only
RECURSIVE RemoveColon(_)
RemoveColon(s) ==
    IF s = <<>> THEN <<>>
    ELSE IF Head(s) = ":" THEN Tail(s)
    ELSE <<Head(s)>> \o RemoveColon(Tail(s))

\* $(control).children(':selected').text()
SelectedText(c) == (CHOOSE o \in Options : o.value = value[c]).text

(***************************************************************************)
(* Dates.  A string is a sequence of characters; parseInt reads the        *)
(* decimal digits a string starts with, and gives NaN when there is none.  *)
(***************************************************************************)
Digits == <<"0", "1", "2", "3", "4", "5", "6", "7", "8", "9">>

IsDigit(ch) == \E i \in 1..10 : Digits[i] = ch
DigitValue(ch) == (CHOOSE i \in 1..10 : Digits[i] = ch) - 1

\* the number read from the digits str starts with, after acc
RECURSIVE ReadDigits(_, _)
ReadDigits(str, acc) ==
    IF str # <<>> /\ IsDigit(Head(str))
    THEN ReadDigits(Tail(str), 10 * acc + DigitValue(Head(str)))
    ELSE acc

parseInt(str) ==
    LET t == TrimLeft(str) IN
    IF t # <<>> /\ IsDigit(Head(t)) THEN ReadDigits(t, 0) ELSE NaN

\* /^(\d+)[-\/](\d+)[-\/](\d+)$/: the three groups of str, or <<>> for no match
IsSeparator(ch) == ch = "-" \/ ch = "/"

RECURSIVE DigitRun(_)
DigitRun(str) ==
    IF str # <<>> /\ IsDigit(Head(str)) THEN <<Head(str)>> \o DigitRun(Tail(str))
    ELSE <<>>

After(str, n) == SubSeq(str, n + 1, Len(str))

rxMatch(data) ==
    LET g1 == DigitRun(data)
        r1 == After(data, Len(g1))
        g2 == IF r1 = <<>> THEN <<>> ELSE DigitRun(Tail(r1))
        r2 == IF r1 = <<>> THEN <<>> ELSE After(Tail(r1), Len(g2))
        g3 == IF r2 = <<>> THEN <<>> ELSE DigitRun(Tail(r2))
        r3 == IF r2 = <<>> THEN <<"x">> ELSE After(Tail(r2), Len(g3))
    IN  IF /\ g1 # <<>> /\ r1 # <<>> /\ IsSeparator(Head(r1))
           /\ g2 # <<>> /\ r2 # <<>> /\ IsSeparator(Head(r2))
           /\ g3 # <<>> /\ r3 = <<>>
        THEN <<g1, g2, g3>>
        ELSE <<>>

\* normalizeDate: parts.m, parts.d, parts.y (parts.mdy is the three joined
\* by '/'); <<>> when parts is left empty.  parseInt does not throw, so the
\* catch that would set the window to 50 is never entered
normalizeDate(data, window) ==
    LET found == rxMatch(data)
        w == parseInt(window)
        y == parseInt(found[3])
    IN  IF found = <<>> THEN <<>>
        ELSE [ m |-> parseInt(found[1]), d |-> parseInt(found[2]),
               y |-> IF JsLessThan(y, w) THEN y + 2000
                     ELSE IF y < 100 THEN y + 1900
                     ELSE y ]

\* the calendar of the Date object
IsLeap(y) == (y % 4 = 0 /\ y % 100 # 0) \/ y % 400 = 0

DaysIn(m, y) ==
    IF m = 2 THEN (IF IsLeap(y) THEN 29 ELSE 28)
    ELSE IF m \in {4, 6, 9, 11} THEN 30
    ELSE 31

\* the date that month m, day d of year y stands for when the numbers run over
RECURSIVE Rolled(_, _, _)
Rolled(m, d, y) ==
    IF m > 12 THEN Rolled(m - 12, d, y + 1)
    ELSE IF m < 1 THEN Rolled(m + 12, d, y - 1)
    ELSE IF d > DaysIn(m, y) THEN Rolled(m + 1, d - DaysIn(m, y), y)
    ELSE IF d < 1
         THEN LET pm == IF m = 1 THEN 12 ELSE m - 1
                  py == IF m = 1 THEN y - 1 ELSE y
              IN  Rolled(pm, d + DaysIn(pm, py), py)
    ELSE [m |-> m, d |-> d, y |-> y]

InvalidDate == [m |-> NaN, d |-> NaN, y |-> NaN]

\* new Date(m + '/' + d + '/' + y), the year above 99: the date itself when
\* it is one; otherwise what the engine's parser makes of it, which the
\* language leaves to the engine: the date the numbers run over to, or
\* Invalid Date
NewDate(parts) ==
    IF parts.m \in 1..12 /\ parts.d \in 1..DaysIn(parts.m, parts.y)
    THEN {[m |-> parts.m, d |-> parts.d, y |-> parts.y]}
    ELSE {Rolled(parts.m, parts.d, parts.y), InvalidDate}

\* the simple test the comment of isDate warns of: any date the engine makes
isDateSimple(data, window, dt) ==
    /\ rxMatch(data) # <<>>
    /\ dt # InvalidDate

\* isDate, dt the Date object the engine made of parts.mdy
isDate(data, window, dt) ==
    LET originalParts == normalizeDate(data, window) IN
    /\ rxMatch(data) # <<>>
    /\ dt # InvalidDate
    /\ originalParts.m = dt.m /\ originalParts.d = dt.d /\ originalParts.y = dt.y

(***************************************************************************)
(* ValidationFunction objects: a rule is known by its name, and the method  *)
(* a validation entry stores is the one its name stands for.               *)
(***************************************************************************)
Validator_Required == "Validator_Required"
Validator_SSID == "Validator_SSID"
Rules == {Validator_Required, Validator_SSID}

(***************************************************************************)
(* ValidationTarget.                                                       *)
(***************************************************************************)
Undefined == <<>>

\* does the page hold a label in the control's form-group?
GroupLabel(c) == FALSE

\* function ValidationTarget(validator, targetControl, name, indicatorControl)
ValidationTarget(targetControl, name, indicatorControl) ==
    LET byFor == indicatorControl = Undefined /\ LabelHtml(targetControl) # <<>>
        labelName == IF byFor THEN RemoveColon(LabelHtml(targetControl)) ELSE Undefined
        indicator ==
            IF indicatorControl # Undefined THEN indicatorControl
            ELSE IF byFor THEN <<"label[for=", targetControl, "]">>
            ELSE IF GroupLabel(targetControl) THEN <<".form-group label">>
            ELSE <<targetControl>>
    IN  [ key |-> Identity(targetControl),
          control |-> targetControl,
          indicator |-> indicator,
          name |-> IF name # Undefined THEN name
                   ELSE IF labelName # Undefined THEN labelName
                   ELSE IF NameAttr(targetControl) # <<>> THEN NameAttr(targetControl)
                   ELSE <<IdAttr(targetControl)>>,
          state |-> PASS,
          messages |-> <<>>,
          validations |-> <<>> ]

addMessage(tg, message) ==
    IF \E i \in 1..Len(tg.messages) : tg.messages[i] = message
    THEN tg
    ELSE [tg EXCEPT !.messages = Append(@, message)]

\* the slip of assigning the bit where it is or-ed in
failOverwrites(tg, message) ==
    addMessage([tg EXCEPT !.state = FAIL], <<"Error: ">> \o message)

fail(tg, message) ==
    addMessage([tg EXCEPT !.state = BitOr(@, FAIL)], <<"Error: ">> \o message)

\* the slip of listing a warning without its prefix
warnUnprefixed(tg, message) ==
    addMessage([tg EXCEPT !.state = BitOr(@, WARN)], message)

warn(tg, message) ==
    addMessage([tg EXCEPT !.state = BitOr(@, WARN)], <<"Warning: ">> \o message)

\* the slip of resetting the state and keeping the messages
clearKeepsMessages(tg) == [tg EXCEPT !.state = PASS]

clear(tg) == [tg EXCEPT !.state = PASS, !.messages = <<>>]

(***************************************************************************)
(* The built-in rules bound in this model.                                 *)
(***************************************************************************)
RequiredMethod(tg) ==
    IF tagName(tg.control) = "SELECT"
    THEN IF isEmpty(SelectedText(tg.control))
         THEN fail(tg, tg.name \o <<" is a required field.">>)
         ELSE tg
    ELSE IF isEmpty(value[tg.control])
         THEN fail(tg, tg.name \o <<" is a required field.">>)
         ELSE tg

SSIDMethod(tg) ==
    LET ssid == value[tg.control]
        info == Lookup(ssid)
    IN  IF Len(ssid) = 0 THEN tg
        ELSE IF Len(ssid) # 6
        THEN fail(tg, <<"SSIDs must be six characters in length.">>)
        ELSE IF info.schoolname
        THEN IF ~info.active
             THEN warn(tg, ssid \o <<" is not an active facility.">>)
             ELSE tg
        ELSE fail(tg, ssid \o <<" does not exist on NGS.">>)

\* the characters of an address: [a-zA-Z], [a-zA-Z0-9-] and [_a-zA-Z0-9-]
Letters == {"a", "b", "c", "d", "g", "m", "o", "r", "x", "B"}
IsLetter(ch) == ch \in Letters
IsHostChar(ch) == IsLetter(ch) \/ IsDigit(ch) \/ ch = "-"
IsNameChar(ch) == IsHostChar(ch) \/ ch = "_"

\* str.split(ch)
RECURSIVE Split(_, _)
Split(str, ch) ==
    IF \A i \in 1..Len(str) : str[i] # ch THEN <<str>>
    ELSE LET at == CHOOSE i \in 1..Len(str) :
                       str[i] = ch /\ \A j \in 1..(i - 1) : str[j] # ch
         IN  <<SubSeq(str, 1, at - 1)>> \o Split(After(str, at), ch)

\* patt.test(str): name(.name)*@host(.host)*.tld, the tld two to four
\* letters; a '.' is in no class, so the pieces are those between the dots
NamesMatch(names) ==
    \A i \in 1..Len(names) :
        names[i] # <<>> /\ \A j \in 1..Len(names[i]) : IsNameChar(names[i][j])

TldMatches(tld) == Len(tld) \in 2..4 /\ \A j \in 1..Len(tld) : IsLetter(tld[j])

HostsMatch(hosts) ==
    /\ Len(hosts) >= 2
    /\ \A i \in 1..(Len(hosts) - 1) :
           hosts[i] # <<>> /\ \A j \in 1..Len(hosts[i]) : IsHostChar(hosts[i][j])
    /\ TldMatches(hosts[Len(hosts)])

SidesMatch(sides) ==
    /\ Len(sides) = 2
    /\ NamesMatch(Split(sides[1], "."))
    /\ HostsMatch(Split(sides[2], "."))

patt(str) == SidesMatch(Split(str, "@"))

\* if (!patt.test(piece)) target.fail(piece + ' is not a valid email address.')
FailUnlessAddress(tg, piece) ==
    IF ~patt(piece) THEN fail(tg, piece \o <<" is not a valid email address.">>)
    ELSE tg

\* the slip of testing the pieces as they are, untrimmed
RECURSIVE FailEachUntrimmed(_, _)
FailEachUntrimmed(tg, email) ==
    IF email = <<>> THEN tg
    ELSE FailEachUntrimmed(FailUnlessAddress(tg, Head(email)), Tail(email))

\* the loop of Validator_EMail over the pieces of email.split(';')
RECURSIVE FailEach(_, _)
FailEach(tg, email) ==
    IF email = <<>> THEN tg
    ELSE FailEach(FailUnlessAddress(tg, Trim(Head(email))), Tail(email))

Validator_EMail == "Validator_EMail"

EMailMethod(tg) ==
    IF \E i \in 1..Len(value[tg.control]) : value[tg.control][i] = ";"
    THEN FailEach(tg, Split(value[tg.control], ";"))
    ELSE IF ~isEmpty(value[tg.control])
    THEN FailUnlessAddress(tg, Trim(value[tg.control]))
    ELSE tg

\* this.validations[v].method(this)
Method(name, tg) ==
    IF name = Validator_Required THEN RequiredMethod(tg)
    ELSE IF name = Validator_SSID THEN SSIDMethod(tg)
    ELSE IF name = Validator_EMail THEN EMailMethod(tg)
    ELSE tg

(***************************************************************************)
(* Validator.targets and a target's validations are kept in insertion      *)
(* order, the order "for ... in" visits them.                              *)
(***************************************************************************)
HasKey(seq, k) == \E i \in 1..Len(seq) : seq[i].key = k
IndexOf(seq, k) == CHOOSE i \in 1..Len(seq) : seq[i].key = k
Get(seq, k) == seq[IndexOf(seq, k)]
Set(seq, k, v) == [seq EXCEPT ![IndexOf(seq, k)] = v]
Delete(seq, k) == SelectSeq(seq, LAMBDA e : e.key # k)
Keys(seq) == {seq[i].key : i \in 1..Len(seq)}

(***************************************************************************)
(* The operations are functions of a record m of what they change:         *)
(* m.targets, m.handlers, m.disabled (the submit buttons' class) and       *)
(* m.trace, the record of the calls made: "validateAll" when the           *)
(* Validator's validateAll is entered, "call" for a rule's method, "pass"  *)
(* when a target's validateAll returns, "post" for a call of the           *)
(* postValidation function with its argument and the targets' states at    *)
(* that moment, and what isValid does to the event, shows and returns.     *)
(***************************************************************************)
M0 ==
    [ targets |-> targets, handlers |-> handlers,
      disabled |-> submitDisabled, trace |-> <<>> ]

Log(m, e) == [m EXCEPT !.trace = Append(@, e)]

\* the entry of a call whose effect is read off the trace: the trace opens with it
Called(ev, k, triggerControl, events, vf) ==
    Log(M0, [ev |-> ev, target |-> k, trigger |-> triggerControl,
             events |-> events, rule |-> vf])

\* the first loop of ValidationTarget.prototype.validateAll, from entry i
RECURSIVE RunValidations(_, _, _)
RunValidations(tg, i, tr) ==
    IF i > Len(tg.validations) THEN [tg |-> tg, tr |-> tr]
    ELSE IF ~tg.validations[i].lock
    THEN LET locked == [tg EXCEPT !.validations[i].lock = TRUE]
             ran == Method(tg.validations[i].key, locked)
             unlocked == [ran EXCEPT !.validations[i].lock = FALSE]
         IN  RunValidations(unlocked, i + 1,
                 Append(tr, [ev |-> "call", target |-> tg.key,
                             rule |-> tg.validations[i].key]))
    ELSE RunValidations(tg, i + 1, tr)

\* the slip of running the rules whatever the ancestors' classes
TargetValidateAllUnguarded(m, k, submitting) ==
    LET cleared == clear(Get(m.targets, k))
        r == RunValidations(cleared, 1, m.trace)
    IN  [m EXCEPT !.targets = Set(m.targets, k, r.tg),
                  !.trace = Append(r.tr, [ev |-> "pass", target |-> k])]

\* ValidationTarget.prototype.validateAll
TargetValidateAll(m, k, submitting) ==
    LET cleared == clear(Get(m.targets, k))
        r == RunValidations(cleared, 1, m.trace)
        unlockAll == [r.tg EXCEPT !.validations =
                         [i \in 1..Len(r.tg.validations) |->
                             [r.tg.validations[i] EXCEPT !.lock = FALSE]]]
    IN  IF ~disabledAncestor[cleared.control]
        THEN [m EXCEPT !.targets = Set(m.targets, k, unlockAll),
                       !.trace = Append(r.tr, [ev |-> "pass", target |-> k])]
        ELSE [m EXCEPT !.targets = Set(m.targets, k, cleared),
                       !.trace = Append(m.trace, [ev |-> "pass", target |-> k])]

\* Validator.prototype.state: s = PASS; for (t in targets) s |= targets[t].state
RECURSIVE OrStates(_, _)
OrStates(tgs, i) ==
    IF i = 0 THEN PASS ELSE BitOr(OrStates(tgs, i - 1), tgs[i].state)

\* the slip "s = targets[t].state" for "s |= targets[t].state"
ValidatorStateAssigned(tgs) == IF tgs = <<>> THEN PASS ELSE tgs[Len(tgs)].state

ValidatorState(tgs) == OrStates(tgs, Len(tgs))

\* the slip of passing "failures exist" where "all passed" is documented
postNotInverted(m) ==
    LET hasFailures == BitAnd(ValidatorState(m.targets), FAIL) = FAIL
        called == IF postValidation
                  THEN Log(m, [ev |-> "post", arg |-> hasFailures,
                               snap |-> [i \in 1..Len(m.targets) |-> m.targets[i].state]])
                  ELSE m
    IN  IF submitBehavior = DISABLE
        THEN [called EXCEPT !.disabled = (submitButtons > 0 /\ hasFailures)]
        ELSE called

\* the reading under which a warning alone counts as a failure
postWarnFails(m) ==
    LET hasFailures == ValidatorState(m.targets) = PASS
        called == IF postValidation
                  THEN Log(m, [ev |-> "post", arg |-> hasFailures,
                               snap |-> [i \in 1..Len(m.targets) |-> m.targets[i].state]])
                  ELSE m
    IN  IF submitBehavior = DISABLE
        THEN [called EXCEPT !.disabled = (submitButtons > 0 /\ hasFailures)]
        ELSE called

\* Validator.prototype.post
post(m) ==
    LET hasFailures == BitAnd(ValidatorState(m.targets), FAIL) # FAIL
        called == IF postValidation
                  THEN Log(m, [ev |-> "post", arg |-> hasFailures,
                               snap |-> [i \in 1..Len(m.targets) |-> m.targets[i].state]])
                  ELSE m
    IN  IF submitBehavior = DISABLE
        THEN [called EXCEPT !.disabled = (submitButtons > 0 /\ hasFailures)]
        ELSE called

\* ValidationTarget.prototype.validate
validate(m, k) == post(TargetValidateAll(m, k, FALSE))

\* Validator.prototype.validateAll
RECURSIVE ValidateEach(_, _, _)
ValidateEach(m, i, submitting) ==
    IF i > Len(m.targets) THEN m
    ELSE ValidateEach(TargetValidateAll(m, m.targets[i].key, submitting), i + 1, submitting)

ValidatorValidateAll(m, submitting) ==
    post(ValidateEach(Log(m, [ev |-> "validateAll", submitting |-> submitting]),
                      1, submitting))

\* the slip of blocking on any state other than PASS
isValidBlocksWarnings(m, event) ==
    LET v == ValidatorValidateAll(Log(m, [ev |-> "isValid", event |-> event]), TRUE)
        stopped == IF event
                   THEN Log(Log(v, [ev |-> "stopImmediatePropagation"]),
                            [ev |-> "preventDefault"])
                   ELSE v
    IN  IF ValidatorState(v.targets) # PASS
        THEN Log(Log(stopped, [ev |-> "displayAllErrors"]),
                 [ev |-> "return", value |-> FALSE])
        ELSE Log(v, [ev |-> "return", value |-> TRUE])

\* Validator.prototype.isValid; event is TRUE when an event object is passed
isValid(m, event) ==
    LET v == ValidatorValidateAll(Log(m, [ev |-> "isValid", event |-> event]), TRUE)
        stopped == IF event
                   THEN Log(Log(v, [ev |-> "stopImmediatePropagation"]),
                            [ev |-> "preventDefault"])
                   ELSE v
    IN  IF BitAnd(ValidatorState(v.targets), FAIL) # 0
        THEN Log(Log(stopped, [ev |-> "displayAllErrors"]),
                 [ev |-> "return", value |-> FALSE])
        ELSE Log(v, [ev |-> "return", value |-> TRUE])

\* jQuery's dispatch of an event on a control: the bound handlers, in order
RECURSIVE RunHandlers(_, _)
RunHandlers(m, hs) ==
    IF hs = <<>> THEN m ELSE RunHandlers(validate(m, Head(hs)), Tail(hs))

dispatch(m, c, e) == RunHandlers(m, m.handlers[<<c, e>>])

\* the slip of constructing a target whether or not the map holds one
addTargetAnew(m, targetControl, name, indicatorControl) ==
    LET made == ValidationTarget(targetControl, name, indicatorControl) IN
    [m EXCEPT !.targets = IF HasKey(@, made.key) THEN Set(@, made.key, made)
                          ELSE Append(@, made)]

\* the slip of keying the map by the element and not by its identity
addTargetByElement(m, targetControl, name, indicatorControl) ==
    IF \E i \in 1..Len(m.targets) : m.targets[i].control = targetControl
    THEN m
    ELSE [m EXCEPT !.targets =
             Append(@, ValidationTarget(targetControl, name, indicatorControl))]

\* Validator.prototype.addTarget
addTarget(m, targetControl, name, indicatorControl) ==
    IF ~HasKey(m.targets, Identity(targetControl))
    THEN [m EXCEPT !.targets =
             Append(@, ValidationTarget(targetControl, name, indicatorControl))]
    ELSE m

\* the loop of ValidationTarget.prototype.addValidation over events
RECURSIVE AddEvents(_, _, _, _, _)
AddEvents(refCount, h, k, triggerControl, events) ==
    IF events = <<>> THEN [refCount |-> refCount, h |-> h]
    ELSE LET eventId == <<Identity(triggerControl), Head(events)>> IN
         IF eventId \notin DOMAIN refCount
         THEN AddEvents(Put(refCount, eventId, 1),
                        [h EXCEPT ![<<triggerControl, Head(events)>>] = Append(@, k)],
                        k, triggerControl, Tail(events))
         ELSE AddEvents(Put(refCount, eventId, JsInc(refCount[eventId])),
                        h, k, triggerControl, Tail(events))

\* ValidationTarget.prototype.addValidation
addValidation(m, k, triggerControl, events, vf) ==
    LET tg == Get(m.targets, k)
        vs == IF HasKey(tg.validations, vf)
              THEN tg.validations
              ELSE Append(tg.validations,
                          [key |-> vf, lock |-> FALSE, refCount |-> EmptyMap])
        r == AddEvents(Get(vs, vf).refCount, m.handlers, k, triggerControl, events)
        v == [Get(vs, vf) EXCEPT !.refCount = r.refCount]
    IN  [m EXCEPT !.targets = Set(m.targets, k, [tg EXCEPT !.validations = Set(vs, vf, v)]),
                  !.handlers = r.h]

\* the slip of unbinding and deleting at the first removal, whatever the count
RECURSIVE RemoveEventsUncounted(_, _, _, _)
RemoveEventsUncounted(refCount, h, triggerControl, events) ==
    IF events = <<>> THEN [refCount |-> refCount, h |-> h]
    ELSE LET eventId == <<Identity(triggerControl), Head(events)>> IN
         RemoveEventsUncounted(Drop(refCount, eventId),
                               [h EXCEPT ![<<triggerControl, Head(events)>>] = <<>>],
                               triggerControl, Tail(events))

\* the loop of ValidationTarget.prototype.removeValidation over events
RECURSIVE RemoveEvents(_, _, _, _)
RemoveEvents(refCount, h, triggerControl, events) ==
    IF events = <<>> THEN [refCount |-> refCount, h |-> h]
    ELSE LET eventId == <<Identity(triggerControl), Head(events)>>
             n == IF eventId \in DOMAIN refCount
                  THEN JsDec(refCount[eventId])
                  ELSE NaN
         IN  IF JsLessThanOne(n)
             THEN RemoveEvents(Drop(refCount, eventId),
                               [h EXCEPT ![<<triggerControl, Head(events)>>] = <<>>],
                               triggerControl, Tail(events))
             ELSE RemoveEvents(Put(refCount, eventId, n), h,
                               triggerControl, Tail(events))

\* ValidationTarget.prototype.removeValidation
removeValidation(m, k, triggerControl, events, vf) ==
    LET tg == Get(m.targets, k)
        r == RemoveEvents(Get(tg.validations, vf).refCount, m.handlers,
                          triggerControl, events)
        v == [Get(tg.validations, vf) EXCEPT !.refCount = r.refCount]
        vs == IF Size(r.refCount) = 0
              THEN Delete(tg.validations, vf)
              ELSE Set(tg.validations, vf, v)
    IN  IF HasKey(tg.validations, vf)
        THEN validate([m EXCEPT !.targets = Set(m.targets, k, [tg EXCEPT !.validations = vs]),
                                !.handlers = r.h], k)
        ELSE validate(m, k)

\* the slip of leaving the target in the map
removeControlFunctionKeepsTarget(m, targetControl, triggerControl, events, vf) ==
    IF HasKey(m.targets, Identity(targetControl))
    THEN removeValidation(m, Identity(targetControl), triggerControl, events, vf)
    ELSE m

\* Validator.prototype.removeControlFunction
removeControlFunction(m, targetControl, triggerControl, events, vf) ==
    LET targetId == Identity(targetControl) IN
    IF HasKey(m.targets, targetId)
    THEN LET r == removeValidation(m, targetId, triggerControl, events, vf) IN
         IF Len(Get(r.targets, targetId).validations) = 0
         THEN [r EXCEPT !.targets = Delete(r.targets, targetId)]
         ELSE r
    ELSE m

\* the slip of binding the rule without forcing the evaluation
requireUnevaluated(m, targetControl, name, indicatorControl) ==
    addValidation(
        addValidation(addTarget(m, targetControl, name, indicatorControl),
                      Identity(targetControl), targetControl, <<"keyup">>,
                      Validator_Required),
        Identity(targetControl), targetControl, <<"change">>, Validator_Required)

\* Validator.prototype.require
require(m, targetControl, name, indicatorControl) ==
    dispatch(
        addValidation(
            addValidation(addTarget(m, targetControl, name, indicatorControl),
                          Identity(targetControl), targetControl, <<"keyup">>,
                          Validator_Required),
            Identity(targetControl), targetControl, <<"change">>, Validator_Required),
        targetControl, "change")

\* Validator.prototype.unRequire
unRequire(m, targetControl) ==
    removeControlFunction(m, targetControl, targetControl,
                          <<"keyup", "change">>, Validator_Required)

(***************************************************************************)
(* The state after new Validator(scope, validationBehavior,                *)
(* submitSelector, submitBehavior) on a page without the marker classes:   *)
(* no targets, the click handler wired as the constructor wires it, and    *)
(* the constructor's validateAll(false) run.                               *)
(***************************************************************************)
Slots == Controls \X Rules \X Controls \X Events

Constructed(behaviors, buttons, hooks) ==
    /\ value = [c \in Controls |-> <<>>]
    /\ disabledAncestor = [c \in Controls |-> FALSE]
    /\ submitBehavior \in behaviors
    /\ validationBehavior = ICON
    /\ submitButtons \in buttons
    /\ clickWired = (submitButtons > 0 /\ submitBehavior = SUMMARY)
    /\ postValidation \in hooks
    /\ targets = <<>>
    /\ handlers = [p \in Controls \X Events |-> <<>>]
    /\ submitDisabled =
           ValidatorValidateAll(
               [targets |-> <<>>, handlers |-> handlers,
                disabled |-> FALSE, trace |-> <<>>], FALSE).disabled
    /\ trace = <<>>
    /\ ledger = [s \in Slots |-> 0]

\* the page of the Validator: no isDate call under watch, no calculator, no
\* pass in progress, no rendering followed
InitWith(behaviors, buttons, hooks) ==
    /\ Constructed(behaviors, buttons, hooks)
    /\ probe = <<>>
    /\ calc = <<>>
    /\ run = <<>>
    /\ view = <<>>

\* a Validator that disables its one submit button, with a postValidation
\* function assigned to it
Init == InitWith({DISABLE}, {1}, {TRUE})

\* what an operation leaves: the record m
Committed(m) ==
    /\ targets' = m.targets
    /\ handlers' = m.handlers
    /\ submitDisabled' = m.disabled
    /\ trace' = m.trace
    /\ UNCHANGED <<submitBehavior, validationBehavior, submitButtons, clickWired,
                   postValidation, probe, calc, run>>

Commit(m) == Committed(m) /\ UNCHANGED view

(***************************************************************************)
(* The page's side: the user edits a control, a container is disabled or   *)
(* enabled, an event fires on a control, a button is clicked.              *)
(***************************************************************************)
SetValue(c, v) ==
    /\ v # value[c]
    /\ value' = [value EXCEPT ![c] = v]
    /\ Commit(M0)
    /\ UNCHANGED <<disabledAncestor, ledger>>

SetDisabled(c) ==
    /\ disabledAncestor' = [disabledAncestor EXCEPT ![c] = ~@]
    /\ Commit(M0)
    /\ UNCHANGED <<value, ledger>>

Fire(c, e) ==
    /\ Commit(dispatch(M0, c, e))
    /\ UNCHANGED <<value, disabledAncestor, ledger>>

ClickSubmit ==
    /\ clickWired
    /\ Commit(isValid(M0, TRUE))
    /\ UNCHANGED <<value, disabledAncestor, ledger>>

\* the click handler of the scope's reset button
RECURSIVE ClearEach(_, _)
ClearEach(tgs, i) ==
    IF i = 0 THEN tgs ELSE ClearEach([tgs EXCEPT ![i] = clear(@)], i - 1)

ResetClick ==
    /\ value' = [c \in Controls |-> <<>>]
    /\ Commit([M0 EXCEPT !.targets = ClearEach(@, Len(@))])
    /\ UNCHANGED <<disabledAncestor, ledger>>

(***************************************************************************)
(* The programmer's side: the calls on the Validator and on its targets.   *)
(***************************************************************************)
AddTarget(c) ==
    /\ Commit(addTarget(M0, c, Undefined, Undefined))
    /\ UNCHANGED <<value, disabledAncestor, ledger>>

AddValidation(k, triggerControl, events, vf) ==
    /\ HasKey(targets, k)
    /\ Commit(addValidation(M0, k, triggerControl, events, vf))
    /\ UNCHANGED <<value, disabledAncestor>>

RemoveValidation(k, triggerControl, events, vf) ==
    /\ HasKey(targets, k)
    /\ Commit(removeValidation(Called("removeValidation", k, triggerControl, events, vf),
                                k, triggerControl, events, vf))
    /\ UNCHANGED <<value, disabledAncestor>>

RemoveControlFunction(c, triggerControl, events, vf) ==
    /\ Commit(removeControlFunction(
                  Called("removeControlFunction", c, triggerControl, events, vf),
                  c, triggerControl, events, vf))
    /\ UNCHANGED <<value, disabledAncestor, ledger>>

Require(c) ==
    /\ Commit(require(M0, c, Undefined, Undefined))
    /\ UNCHANGED <<value, disabledAncestor, ledger>>

UnRequire(c) ==
    /\ Commit(unRequire(Called("unRequire", c, c, <<"keyup", "change">>,
                                Validator_Required), c))
    /\ UNCHANGED <<value, disabledAncestor, ledger>>

ValidateAll(submitting) ==
    /\ Commit(ValidatorValidateAll(M0, submitting))
    /\ UNCHANGED <<value, disabledAncestor, ledger>>

IsValid(event) ==
    /\ Commit(isValid(M0, event))
    /\ UNCHANGED <<value, disabledAncestor, ledger>>

\* target.fail(message), target.warn(message) and target.clear() called directly
DirectMessages == {<<"m">>}

Fail(k, message) ==
    /\ HasKey(targets, k)
    /\ Commit([M0 EXCEPT !.targets = Set(@, k, fail(Get(@, k), message))])
    /\ UNCHANGED <<value, disabledAncestor, ledger>>

Warn(k, message) ==
    /\ HasKey(targets, k)
    /\ Commit([M0 EXCEPT !.targets = Set(@, k, warn(Get(@, k), message))])
    /\ UNCHANGED <<value, disabledAncestor, ledger>>

Clear(k) ==
    /\ HasKey(targets, k)
    /\ Commit([M0 EXCEPT !.targets = Set(@, k, clear(Get(@, k)))])
    /\ UNCHANGED <<value, disabledAncestor, ledger>>

\* the target of control c holds an entry for rule vf
Bound(c, vf) ==
    IF HasKey(targets, c) THEN HasKey(Get(targets, c).validations, vf) ELSE FALSE

(***************************************************************************)
(* Spec: the page's events and the Validator's calls, each rule bound once *)
(* to the events of the control it validates: Required on both controls,   *)
(* the SSID lookup on the input.  Reference counts above one are SpecRef's. *)
(***************************************************************************)
RulesOf(c) == IF c = "c1" THEN Rules ELSE {Validator_Required}

Next ==
    \/ \E c \in Controls : \E v \in ValuesOf(c) : SetValue(c, v)
    \/ \E c \in Disableable : SetDisabled(c)
    \/ \E c \in Controls : \E e \in Events : Fire(c, e)
    \/ ResetClick
    \/ \E c \in Controls : AddTarget(c)
    \/ \E c \in Controls :
           /\ Validator_SSID \in RulesOf(c)
           /\ ~Bound(c, Validator_SSID)
           /\ AddValidation(c, c, <<"change">>, Validator_SSID)
           /\ UNCHANGED ledger
    \/ \E c \in Controls : \E vf \in RulesOf(c) :
           RemoveValidation(c, c, <<"change">>, vf) /\ UNCHANGED ledger
    \/ \E c \in Controls :
           RemoveControlFunction(c, c, <<"change">>, Validator_SSID)
    \/ \E c \in Controls : ~Bound(c, Validator_Required) /\ Require(c)
    \/ \E c \in Controls : UnRequire(c)
    \/ \E b \in BOOLEAN : ValidateAll(b)
    \/ \E b \in BOOLEAN : IsValid(b)

Spec == Init /\ [][Next]_vars

(***************************************************************************)
(* SpecDirect: a Validator without a postValidation function, over         *)
(* controls left at their initial values.  Required is bound once to each  *)
(* control and unbound again, and fail, warn and clear are called on the   *)
(* targets directly, as a rule's method or any holder of a target may.     *)
(***************************************************************************)
InitDirect == InitWith({NONE}, {1}, {FALSE})

NextDirect ==
    \/ \E c \in Controls : \E e \in Events : Fire(c, e)
    \/ \E c \in Controls : AddTarget(c)
    \/ \E c \in Controls :
           RemoveValidation(c, c, <<"change">>, Validator_Required)
               /\ UNCHANGED ledger
    \/ \E c \in Controls :
           RemoveControlFunction(c, c, <<"keyup", "change">>, Validator_Required)
    \/ \E c \in Controls : ~Bound(c, Validator_Required) /\ Require(c)
    \/ \E c \in Controls :
           /\ ~Bound(c, Validator_Required)
           /\ AddValidation(c, c, <<"change">>, Validator_Required)
           /\ UNCHANGED ledger
    \/ ValidateAll(FALSE)
    \/ \E c \in Controls : \E msg \in DirectMessages :
           /\ HasKey(targets, c)
           /\ Len(Get(targets, c).messages) <= MaxDirect
           /\ Fail(c, msg)
    \/ \E c \in Controls : \E msg \in DirectMessages :
           /\ HasKey(targets, c)
           /\ Len(Get(targets, c).messages) <= MaxDirect
           /\ Warn(c, msg)
    \/ \E c \in Controls : Clear(c)

SpecDirect == InitDirect /\ [][NextDirect]_vars

(***************************************************************************)
(* SpecRef: the reference counts of one rule of one target, bound to and   *)
(* unbound from the events of both controls in any order, removals of      *)
(* (trigger, event) pairs that were never added included.  The ledger      *)
(* counts what a caller holds: an addValidation adds a reference to each   *)
(* pair it names, a removeValidation takes one back where there is one.    *)
(***************************************************************************)
InitRef == InitWith({NONE}, {0}, {FALSE})

EventLists == {<<"keyup">>, <<"change">>, <<"keyup", "change">>}

InList(events, e) == \E i \in 1..Len(events) : events[i] = e

Added(k, triggerControl, events, vf) ==
    [s \in Slots |->
        IF s[1] = k /\ s[2] = vf /\ s[3] = triggerControl /\ InList(events, s[4])
        THEN ledger[s] + 1 ELSE ledger[s]]

Removed(k, triggerControl, events, vf) ==
    [s \in Slots |->
        IF s[1] = k /\ s[2] = vf /\ s[3] = triggerControl /\ InList(events, s[4])
           /\ ledger[s] > 0
        THEN ledger[s] - 1 ELSE ledger[s]]

NextRef ==
    \/ AddTarget("c1")
    \/ \E t \in Controls : \E events \in EventLists :
           /\ \A i \in 1..Len(events) :
                  ledger[<<"c1", Validator_Required, t, events[i]>>] < MaxCalls
           /\ AddValidation("c1", t, events, Validator_Required)
           /\ ledger' = Added("c1", t, events, Validator_Required)
    \/ \E t \in Controls : \E events \in EventLists :
           /\ RemoveValidation("c1", t, events, Validator_Required)
           /\ ledger' = Removed("c1", t, events, Validator_Required)
    \/ \E c \in Controls : \E e \in Events :
           Fire(c, e)

SpecRef == InitRef /\ [][NextRef]_vars

(***************************************************************************)
(* SpecTargets: addTarget called for any element of the page, with and     *)
(* without a name and an indicator, among require, unRequire, events and   *)
(* direct fail, warn and clear calls on the targets.                       *)
(***************************************************************************)
AddNamedTarget(c, name, indicatorControl) ==
    /\ Commit(addTarget(M0, c, name, indicatorControl))
    /\ UNCHANGED <<value, disabledAncestor, ledger>>

\* the name and indicatorControl arguments: both left out, both given
TargetArgs ==
    { [name |-> Undefined, indicatorControl |-> Undefined],
      [name |-> <<"Nick">>, indicatorControl |-> <<"#mark">>] }

NextTargets ==
    \/ \E c \in {"c1"} \cup Radios : \E a \in TargetArgs :
           AddNamedTarget(c, a.name, a.indicatorControl)
    \/ ~Bound("c1", Validator_Required) /\ Require("c1")
    \/ UnRequire("c1")
    \/ \E e \in Events : Fire("c1", e)
    \/ \E k \in {"c1", "choice"} : \E message \in DirectMessages :
           /\ HasKey(targets, k)
           /\ Len(Get(targets, k).messages) <= MaxDirect
           /\ (Fail(k, message) \/ Warn(k, message))
    \/ \E k \in {"c1", "choice"} : Clear(k)

SpecTargets == InitDirect /\ [][NextTargets]_vars

(***************************************************************************)
(* SpecDate: isDate(data, window) called once on a string and a            *)
(* date-window attribute, the Validator left alone.                        *)
(***************************************************************************)
ValidatorIdle ==
    UNCHANGED <<value, disabledAncestor, targets, handlers, submitBehavior,
                validationBehavior, submitButtons, clickWired, submitDisabled,
                postValidation, trace, ledger, view>>

RECURSIVE ToDigits(_)
ToDigits(n) ==
    IF n < 10 THEN <<Digits[n + 1]>> ELSE ToDigits(n \div 10) \o <<Digits[(n % 10) + 1]>>

Months == {0, 1, 2, 4, 12, 13}
Days == {0, 1, 10, 28, 29, 30, 31, 32, 41}
Years == {0, 15, 49, 50, 51, 99, 100, 1900, 2000, 2015, 2016}
Separators == {<<"/", "/">>, <<"-", "-">>, <<"/", "-">>}
Paddings == {<<>>, <<"0">>}

\* what the user typed: month, day and year, with or without a leading zero,
\* and a few strings that are no three numbers
DateStrings ==
    { pad \o ToDigits(m) \o <<sep[1]>> \o pad \o ToDigits(d) \o <<sep[2]>>
          \o pad \o ToDigits(y) :
          m \in Months, d \in Days, y \in Years, sep \in Separators, pad \in Paddings }
    \cup { <<"1", "/", "2">>, <<"1", ".", "2", ".", "1", "5">>,
           <<"1", "/", "2", "/", "1", "5", " ">>, <<"a", "/", "b", "/", "c">> }

\* the control's date-window attribute; Undefined: the control has none
DateWindows == {Undefined, <<"5", "0">>, <<"3", "0">>}

InitDate ==
    /\ Constructed({NONE}, {0}, {FALSE})
    /\ calc = <<>>
    /\ run = <<>>
    /\ view = <<>>
    /\ probe \in { [data |-> data, window |-> window, called |-> FALSE,
                    parts |-> <<>>, dt |-> <<>>, result |-> FALSE] :
                      data \in DateStrings, window \in DateWindows }

\* isDate(probe.data, probe.window)
IsDate ==
    /\ ~probe.called
    /\ LET parts == normalizeDate(probe.data, probe.window) IN
       \E dt \in IF parts = <<>> THEN {<<>>} ELSE NewDate(parts) :
           probe' = [probe EXCEPT !.called = TRUE, !.parts = parts, !.dt = dt,
                                  !.result = isDate(probe.data, probe.window, dt)]
    /\ UNCHANGED <<calc, run>>
    /\ ValidatorIdle

NextDate == IsDate

SpecDate == InitDate /\ [][NextDate]_vars

(***************************************************************************)
(* SpecEMail: the e-mail rule bound to the input's change event, and the   *)
(* user typing addresses into the input.                                   *)
(***************************************************************************)
Addr1 == <<"a", "@", "b", ".", "c", "o", "m">>
Addr2 == <<"c", "@", "d", ".", "o", "r", "g">>
Bad1 == <<"b", "a", "d">>
Bad2 == <<"a", "@", "b", ".", "c">>

EMailValues ==
    { <<>>, <<" ">>, Addr1, <<" ">> \o Addr1 \o <<" ">>, Bad1, Bad2,
      <<"a", ".", "b", "_", "1", "@", "c", "-", "d", ".", "B", "o", ".", "o", "r", "g">>,
      <<"a", "@", "@", "b", ".", "c", "o", "m">>,
      <<"a", ".", ".", "b", "@", "b", ".", "c", "o", "m">>,
      <<"a", "@", "b", ".", "c", "0", "m">>,
      Addr1 \o <<";">> \o Bad1,
      Addr1 \o <<";", " ">> \o Addr2,
      Addr1 \o <<" ", ";", " ">> \o Addr2 \o <<" ">>,
      Bad1 \o <<";", " ">> \o Bad1 \o <<" ", ";">> \o Addr1,
      Bad1 \o <<";">> \o Bad2 \o <<";">> \o Addr2,
      Addr1 \o <<";">>,
      <<";">> }

NextEMail ==
    \/ \E v \in EMailValues : SetValue("c1", v)
    \/ AddTarget("c1")
    \/ /\ ~Bound("c1", Validator_EMail)
       /\ AddValidation("c1", "c1", <<"change">>, Validator_EMail)
       /\ UNCHANGED ledger
    \/ Fire("c1", "change")
    \/ ValidateAll(FALSE)

SpecEMail == InitDirect /\ [][NextEMail]_vars

(***************************************************************************)
(* The calculator page (src/calc.js).  A JavaScript value is a record: a   *)
(* number is the fraction n/d in lowest terms (d = 0: NaN), a string is    *)
(* the sequence s of its characters.  Binary rounding of the engine's      *)
(* numbers is not modelled: arithmetic is exact.                           *)
(***************************************************************************)
MaxDigits == 3      \* characters typed into the accumulator
MaxValue == 6       \* '=' is pressed while the register is within this

RECURSIVE Gcd(_, _)
Gcd(a, b) == IF b = 0 THEN a ELSE Gcd(b, a % b)

Abs(n) == IF n < 0 THEN 0 - n ELSE n

RECURSIVE Pow10(_)
Pow10(k) == IF k = 0 THEN 1 ELSE 10 * Pow10(k - 1)

NotANumber == [t |-> "number", n |-> 0, d |-> 0, s |-> <<>>]

Number(n, d) ==
    IF d = 0 THEN NotANumber
    ELSE LET g == Gcd(Abs(n), Abs(d))
             sign == IF d < 0 THEN 0 - 1 ELSE 1
         IN  [t |-> "number", n |-> sign * (n \div g), d |-> sign * (d \div g),
              s |-> <<>>]

String(str) == [t |-> "string", n |-> 0, d |-> 0, s |-> str]

UndefinedValue == [t |-> "undefined", n |-> 0, d |-> 0, s |-> <<>>]

Times(x, y) == IF x.d = 0 \/ y.d = 0 THEN NotANumber ELSE Number(x.n * y.n, x.d * y.d)
Over(x, y) == IF x.d = 0 \/ y.d = 0 \/ y.n = 0 THEN NotANumber
              ELSE Number(x.n * y.d, x.d * y.n)
Plus(x, y) == IF x.d = 0 \/ y.d = 0 THEN NotANumber
              ELSE Number(x.n * y.d + y.n * x.d, x.d * y.d)
Minus(x, y) == IF x.d = 0 \/ y.d = 0 THEN NotANumber
               ELSE Number(x.n * y.d - y.n * x.d, x.d * y.d)

\* the decimal literal str starts with: its digits before and after the point
IntegerPart(str) == DigitRun(str)
FractionPart(str) ==
    LET rest == After(str, Len(IntegerPart(str))) IN
    IF rest # <<>> /\ Head(rest) = "." THEN DigitRun(Tail(rest)) ELSE <<>>
LiteralLength(str) ==
    LET rest == After(str, Len(IntegerPart(str))) IN
    Len(IntegerPart(str))
        + (IF rest # <<>> /\ Head(rest) = "." THEN 1 + Len(FractionPart(str)) ELSE 0)
LiteralValue(str) ==
    IF Len(IntegerPart(str)) + Len(FractionPart(str)) = 0 THEN NotANumber
    ELSE Number(ReadDigits(IntegerPart(str), 0) * Pow10(Len(FractionPart(str)))
                    + ReadDigits(FractionPart(str), 0),
                Pow10(Len(FractionPart(str))))

\* the conversion the operators *, / and - and the comparison == apply
ToNumber(v) ==
    IF v.t = "number" THEN v
    ELSE IF v.t = "undefined" THEN NotANumber
    ELSE LET str == Trim(v.s) IN
         IF str = <<>> THEN Number(0, 1)
         ELSE IF LiteralLength(str) = Len(str) THEN LiteralValue(str)
         ELSE NotANumber

\* parseFloat reads the literal the text starts with
parseFloat(v) ==
    IF v.t = "number" THEN v
    ELSE IF v.t = "undefined" THEN NotANumber
    ELSE LiteralValue(TrimLeft(v.s))

\* parseInt of a calculator value: the digits its text starts with; the text
\* of a number within MaxValue is its decimal expansion, sign first
calcParseInt(v) ==
    IF v.t = "undefined" THEN NotANumber
    ELSE IF v.t = "number"
    THEN IF v.d = 0 THEN NotANumber
         ELSE Number((IF v.n < 0 THEN 0 - 1 ELSE 1) * (Abs(v.n) \div v.d), 1)
    ELSE IF parseInt(v.s) = NaN THEN NotANumber ELSE Number(parseInt(v.s), 1)

\* x == 0
EqualsZero(v) == ToNumber(v) = Number(0, 1)

\* acc + num, num a string: the texts joined (acc is a string or the number 0)
Concat(v, str) ==
    IF v.t = "string" THEN String(v.s \o str) ELSE String(ToDigits(v.n) \o str)

NumberKeys == {"0", "5", "."}
OpKeys == {"+", "-", "*", "/"}

\* clearAcc
clearAcc(c) == [c EXCEPT !.acc = Number(0, 1), !.decimal = FALSE]

\* clear of the calculator
calcClear(c) ==
    LET cleared == clearAcc([c EXCEPT !.op = "", !.err = FALSE]) IN
    [cleared EXCEPT !.display = cleared.acc]

\* the slip of typing on into a calculator that shows an error
numberClickKeepsError(c, num) ==
    LET c2 == IF num = "." THEN [c EXCEPT !.decimal = TRUE] ELSE c
        replaced == EqualsZero(c2.acc) /\ num # "."
        acc == IF replaced THEN Concat(String(<<num>>), <<>>)
               ELSE Concat(c2.acc, <<num>>)
    IN  IF num = "." /\ c.decimal THEN c
        ELSE IF EqualsZero(c2.acc) /\ EqualsZero(String(<<num>>)) THEN c2
        ELSE [c2 EXCEPT !.acc = acc, !.display = acc]

\* numberClick, num the value of the button
numberClick(c, num) ==
    LET c1 == IF c.err THEN calcClear(c) ELSE c
        c2 == IF num = "." THEN [c1 EXCEPT !.decimal = TRUE] ELSE c1
        replaced == EqualsZero(c2.acc) /\ num # "."
        acc == IF replaced THEN Concat(String(<<num>>), <<>>)
               ELSE Concat(c2.acc, <<num>>)
    IN  IF num = "." /\ c1.decimal THEN c1
        ELSE IF EqualsZero(c2.acc) /\ EqualsZero(String(<<num>>)) THEN c2
        ELSE [c2 EXCEPT !.acc = acc, !.display = acc]

\* the slip of adding what the page holds as text: '+' joins two strings
calculateJoins(c) ==
    LET text == IF c.acc.t = "string" THEN c.acc.s ELSE ToDigits(c.acc.n)
        reg == IF c.op = "*" THEN Times(ToNumber(c.reg), ToNumber(c.acc))
               ELSE IF c.op = "/"
               THEN IF parseFloat(c.acc) = Number(0, 1)
                    THEN String(<<"Divide by zero.">>)
                    ELSE Over(ToNumber(c.reg), ToNumber(c.acc))
               ELSE IF c.op = "+"
               THEN IF c.reg.t = "number" /\ c.acc.t = "number"
                    THEN Plus(c.reg, c.acc)
                    ELSE Concat(c.reg, text)
               ELSE IF c.op = "-" THEN Minus(ToNumber(c.reg), ToNumber(c.acc))
               ELSE c.acc
        err == IF c.op = "/" /\ parseFloat(c.acc) = Number(0, 1) THEN TRUE ELSE c.err
    IN  [c EXCEPT !.reg = reg, !.err = err, !.display = reg]

\* the slip of showing the register as it is when no operator is chosen
calculateShowsReg(c) ==
    LET reg == IF c.op = "*" THEN Times(ToNumber(c.reg), ToNumber(c.acc))
               ELSE IF c.op = "/"
               THEN IF parseFloat(c.acc) = Number(0, 1)
                    THEN String(<<"Divide by zero.">>)
                    ELSE Over(ToNumber(c.reg), ToNumber(c.acc))
               ELSE IF c.op = "+" THEN Plus(calcParseInt(c.reg), calcParseInt(c.acc))
               ELSE IF c.op = "-" THEN Minus(ToNumber(c.reg), ToNumber(c.acc))
               ELSE c.reg
        err == IF c.op = "/" /\ parseFloat(c.acc) = Number(0, 1) THEN TRUE ELSE c.err
    IN  [c EXCEPT !.reg = reg, !.err = err, !.display = reg]

\* calc
calculate(c) ==
    LET reg == IF c.op = "*" THEN Times(ToNumber(c.reg), ToNumber(c.acc))
               ELSE IF c.op = "/"
               THEN IF parseFloat(c.acc) = Number(0, 1)
                    THEN String(<<"Divide by zero.">>)
                    ELSE Over(ToNumber(c.reg), ToNumber(c.acc))
               ELSE IF c.op = "+" THEN Plus(calcParseInt(c.reg), calcParseInt(c.acc))
               ELSE IF c.op = "-" THEN Minus(ToNumber(c.reg), ToNumber(c.acc))
               ELSE c.acc
        err == IF c.op = "/" /\ parseFloat(c.acc) = Number(0, 1) THEN TRUE ELSE c.err
    IN  [c EXCEPT !.reg = reg, !.err = err, !.display = reg]

\* opClick, val the value of the button
opClick(c, val) ==
    IF val = "C" THEN calcClear(c)
    ELSE IF val = "=" THEN calculate(c)
    ELSE clearAcc([c EXCEPT !.op = val, !.reg = c.acc])

\* the page after the script has run: var acc, reg, op, err, decimal; calcClear()
InitCalc ==
    /\ Constructed({NONE}, {0}, {FALSE})
    /\ probe = <<>>
    /\ run = <<>>
    /\ view = <<>>
    /\ calc = [calcClear([acc |-> UndefinedValue, reg |-> UndefinedValue, op |-> "",
                      err |-> FALSE, decimal |-> FALSE, display |-> UndefinedValue,
                      click |-> ""])
                 EXCEPT !.click = ""]

Within(v) == IF v.t = "number" THEN Abs(v.n) <= MaxValue /\ v.d <= MaxValue ELSE TRUE

\* a click on a button of class numberButton
NumberClick(num) ==
    /\ IF calc.acc.t = "string" THEN Len(calc.acc.s) < MaxDigits ELSE TRUE
    /\ calc' = [numberClick(calc, num) EXCEPT !.click = num]
    /\ UNCHANGED <<probe, run>>
    /\ ValidatorIdle

\* a click on a button of class opButton
OpClick(val) ==
    /\ val = "=" => Within(calc.reg)
    /\ calc' = [opClick(calc, val) EXCEPT !.click = val]
    /\ UNCHANGED <<probe, run>>
    /\ ValidatorIdle

NextCalc ==
    \/ \E num \in NumberKeys : NumberClick(num)
    \/ \E val \in OpKeys \cup {"C", "="} : OpClick(val)

SpecCalc == InitCalc /\ [][NextCalc]_vars

(***************************************************************************)
(* SpecSum: two non-negative integers a and b and an operator, entered     *)
(* into the freshly loaded calculator button by button: the digits of a,   *)
(* the operator, the digits of b, '='; or, with no operator, the digits of *)
(* a and '='.                                                              *)
(***************************************************************************)
MaxOperand == 12    \* the largest number entered

SumOps == {"+", "-", "*"}

Buttons(a, b, op) ==
    IF op = "" THEN ToDigits(a) \o <<"=">>
    ELSE ToDigits(a) \o <<op>> \o ToDigits(b) \o <<"=">>

InitSum ==
    /\ Constructed({NONE}, {0}, {FALSE})
    /\ run = <<>>
    /\ view = <<>>
    /\ calc = [calcClear([acc |-> UndefinedValue, reg |-> UndefinedValue, op |-> "",
                      err |-> FALSE, decimal |-> FALSE, display |-> UndefinedValue,
                      click |-> ""])
                 EXCEPT !.click = ""]
    /\ probe \in { [a |-> a, b |-> b, op |-> op, buttons |-> Buttons(a, b, op)] :
                      a \in 0..MaxOperand, b \in 0..MaxOperand, op \in SumOps }
                  \cup { [a |-> a, b |-> 0, op |-> "", buttons |-> Buttons(a, 0, "")] :
                           a \in 0..MaxOperand }

\* a click on the next button, of class numberButton
ClickNumber ==
    /\ probe.buttons # <<>>
    /\ IsDigit(Head(probe.buttons))
    /\ calc' = [numberClick(calc, Head(probe.buttons)) EXCEPT !.click = Head(probe.buttons)]
    /\ probe' = [probe EXCEPT !.buttons = Tail(@)]
    /\ UNCHANGED run
    /\ ValidatorIdle

\* a click on the next button, of class opButton
ClickOp ==
    /\ probe.buttons # <<>>
    /\ ~IsDigit(Head(probe.buttons))
    /\ calc' = [opClick(calc, Head(probe.buttons)) EXCEPT !.click = Head(probe.buttons)]
    /\ probe' = [probe EXCEPT !.buttons = Tail(@)]
    /\ UNCHANGED run
    /\ ValidatorIdle

NextSum == ClickNumber \/ ClickOp

SpecSum == InitSum /\ [][NextSum]_vars

(***************************************************************************)
(* SpecTwin: the calculator and, from a click on 'C', a second calculator  *)
(* that is freshly loaded at that click and receives every later click as  *)
(* well.  A later 'C' either loads the second one afresh or is one more    *)
(* click on both.                                                          *)
(***************************************************************************)
\* the page after the script has run
Loaded ==
    [calcClear([acc |-> UndefinedValue, reg |-> UndefinedValue, op |-> "",
                err |-> FALSE, decimal |-> FALSE, display |-> UndefinedValue,
                click |-> ""])
        EXCEPT !.click = ""]

Shadowing == probe # <<>>

ShadowedNumberClick(num) ==
    /\ IF calc.acc.t = "string" THEN Len(calc.acc.s) < MaxDigits ELSE TRUE
    /\ calc' = [numberClick(calc, num) EXCEPT !.click = num]
    /\ probe' = IF Shadowing THEN [numberClick(probe, num) EXCEPT !.click = num]
                ELSE probe
    /\ UNCHANGED run
    /\ ValidatorIdle

ShadowedOpClick(val) ==
    /\ val = "=" => Within(calc.reg)
    /\ calc' = [opClick(calc, val) EXCEPT !.click = val]
    /\ probe' = IF Shadowing THEN [opClick(probe, val) EXCEPT !.click = val]
                ELSE probe
    /\ UNCHANGED run
    /\ ValidatorIdle

ClearClick(afresh) ==
    /\ IF afresh THEN TRUE ELSE Shadowing
    /\ calc' = [opClick(calc, "C") EXCEPT !.click = "C"]
    /\ probe' = IF afresh THEN Loaded ELSE [opClick(probe, "C") EXCEPT !.click = "C"]
    /\ UNCHANGED run
    /\ ValidatorIdle

NextTwin ==
    \/ \E num \in NumberKeys : ShadowedNumberClick(num)
    \/ \E val \in OpKeys \cup {"="} : ShadowedOpClick(val)
    \/ \E afresh \in BOOLEAN : ClearClick(afresh)

SpecTwin == InitCalc /\ [][NextTwin]_vars

(***************************************************************************)
(* SpecLock: one target whose rules are written by the page's author, as   *)
(* ValidationFunction(name, f), and bound with addValidation to an event   *)
(* of the target's control.  A rule's function may set the control's value *)
(* and call control.change() (usage note 5), which runs the validate       *)
(* handlers bound to change before the function goes on.  The pass is      *)
(* followed step by step: run.stack holds the calls in progress, outermost *)
(* first.  A frame is a validateAll (v: the entry its first loop is at),   *)
(* a rule's method (v: the entry, n: the change() calls it has yet to      *)
(* make) or a change() (n: the handlers it has yet to run).  A rule's      *)
(* function may call target.fail with a message of its own, as its first   *)
(* statement or as its last; run.state and run.messages are the target's   *)
(* state and the rules whose message its list holds, run.signalled the     *)
(* rules that called fail since the page's call of validateAll.            *)
(***************************************************************************)
MaxRules == 2       \* entries of the target's validations
MaxFires == 2       \* calls of control.change() in one rule's function
MaxDepth == 7       \* frames on the call stack

LockEvents == {"change", "keyup"}

\* where a rule's function calls target.fail
FailPoints == {"never", "first", "last"}

Frame(f, v, n) == [f |-> f, v |-> v, n |-> n]

\* the handlers jQuery runs for change: addValidation binds validate once for
\* every rule and event
ChangeHandlers(r) == Cardinality({i \in 1..Len(r.event) : r.event[i] = "change"})

InitLock ==
    /\ Constructed({NONE}, {0}, {FALSE})
    /\ probe = <<>>
    /\ calc = <<>>
    /\ view = <<>>
    /\ \E n \in 1..MaxRules :
       \E event \in [1..n -> LockEvents], fires \in [1..n -> 0..MaxFires],
          fails \in [1..n -> FailPoints], disabled \in BOOLEAN :
           run = [event |-> event, fires |-> fires, fails |-> fails,
                  disabled |-> disabled,
                  state |-> PASS, messages |-> {}, signalled |-> {},
                  lock |-> [i \in 1..n |-> FALSE],
                  calls |-> [i \in 1..n |-> 0],
                  stack |-> <<>>, done |-> FALSE]

TopFrame == run.stack[Len(run.stack)]
Popped == SubSeq(run.stack, 1, Len(run.stack) - 1)
Entries == Len(run.lock)

InFirstLoop ==
    /\ run.stack # <<>>
    /\ TopFrame.f = "validateAll"
    /\ ~run.disabled
    /\ TopFrame.v <= Entries

PageIdle == UNCHANGED <<probe, calc>> /\ ValidatorIdle

\* target.fail(message) in the function of entry v when it is at the point
Failing(r, v, point) ==
    IF r.fails[v] = point
    THEN [r EXCEPT !.state = BitOr(@, FAIL), !.messages = @ \cup {v},
                   !.signalled = @ \cup {v}]
    ELSE r

\* this.clear(), the first statement of validateAll
Cleared(r) == [r EXCEPT !.state = PASS, !.messages = {}]

\* target.validateAll(submitting), called by the page
CallValidateAll ==
    /\ run.stack = <<>>
    /\ ~run.done
    /\ run' = [Cleared(run) EXCEPT !.signalled = {},
                                   !.stack = <<Frame("validateAll", 1, 0)>>]
    /\ PageIdle

\* disabledAncestor.length != 0: the call returns with no rule run
ReturnDisabled ==
    /\ run.stack # <<>>
    /\ TopFrame.f = "validateAll"
    /\ run.disabled
    /\ run' = [run EXCEPT !.stack = Popped, !.done = (Len(run.stack) = 1)]
    /\ PageIdle

\* if (!lock) { lock = true; method(this); ...
CallMethod ==
    /\ InFirstLoop
    /\ ~run.lock[TopFrame.v]
    /\ Len(run.stack) < MaxDepth
    /\ run' = [Failing(run, TopFrame.v, "first") EXCEPT
                          !.lock[TopFrame.v] = TRUE,
                          !.calls[TopFrame.v] = @ + 1,
                          !.stack = Append(@, Frame("method", TopFrame.v, run.fires[TopFrame.v]))]
    /\ PageIdle

\* if (!lock) is false: on to the next entry
SkipLocked ==
    /\ InFirstLoop
    /\ run.lock[TopFrame.v]
    /\ run' = [run EXCEPT !.stack[Len(run.stack)].v = @ + 1]
    /\ PageIdle

\* the rule's function calls control.change()
CallChange ==
    /\ run.stack # <<>>
    /\ TopFrame.f = "method"
    /\ TopFrame.n > 0
    /\ Len(run.stack) < MaxDepth
    /\ run' = [run EXCEPT !.stack =
                   Append([@ EXCEPT ![Len(@)].n = @ - 1],
                          Frame("change", 0, ChangeHandlers(run)))]
    /\ PageIdle

\* jQuery runs the next handler: validate calls target.validateAll(false)
CallValidate ==
    /\ run.stack # <<>>
    /\ TopFrame.f = "change"
    /\ TopFrame.n > 0
    /\ Len(run.stack) < MaxDepth
    /\ run' = [Cleared(run) EXCEPT !.stack =
                   Append([@ EXCEPT ![Len(@)].n = @ - 1],
                          Frame("validateAll", 1, 0))]
    /\ PageIdle

\* every handler has run: change() returns into the rule's function
ReturnChange ==
    /\ run.stack # <<>>
    /\ TopFrame.f = "change"
    /\ TopFrame.n = 0
    /\ run' = [run EXCEPT !.stack = Popped]
    /\ PageIdle

\* ... method(this) returns; lock = false }, and on to the next entry
ReturnMethod ==
    /\ run.stack # <<>>
    /\ TopFrame.f = "method"
    /\ TopFrame.n = 0
    /\ run' = [Failing(run, TopFrame.v, "last") EXCEPT
                          !.lock[TopFrame.v] = FALSE,
                          !.stack = [Popped EXCEPT ![Len(Popped)].v = @ + 1]]
    /\ PageIdle

\* the second loop sets every lock false; validateAll returns
ReturnValidateAll ==
    /\ run.stack # <<>>
    /\ TopFrame.f = "validateAll"
    /\ ~run.disabled
    /\ TopFrame.v > Entries
    /\ run' = [run EXCEPT !.lock = [i \in 1..Entries |-> FALSE],
                          !.stack = Popped,
                          !.done = (Len(run.stack) = 1)]
    /\ PageIdle

NextLock ==
    \/ CallValidateAll
    \/ ReturnDisabled
    \/ CallMethod
    \/ SkipLocked
    \/ CallChange
    \/ CallValidate
    \/ ReturnChange
    \/ ReturnMethod
    \/ ReturnValidateAll

SpecLock == InitLock /\ [][NextLock]_vars

(***************************************************************************)
(* SpecRender: what setValidationResults leaves on the page.  Every call   *)
(* first removes the highlight classes, empties and hides the help         *)
(* element and removes the icon, so what a control shows is what the last  *)
(* call for its target made of the target's state and messages.  The last  *)
(* call of a pass is the one that ends the target's validateAll, or, under *)
(* a disabled ancestor, the setValidationResults(false) of clear().        *)
(***************************************************************************)
HighlightEnum(st) == IF st = FAIL THEN "alert-danger" ELSE IF st = WARN THEN "alert-warn" ELSE ""
IconEnum(st) ==
    IF st = FAIL THEN "glyphicon-remove"
    ELSE IF st = WARN THEN "glyphicon-warning-sign" ELSE "glyphicon-ok"

\* control.addClass(class)
AddClass(classes, class) == IF class = "" THEN classes ELSE classes \cup {class}

\* ValidationTarget.prototype.fullMessage
RECURSIVE fullMessage(_)
fullMessage(messages) ==
    IF messages = <<>> THEN <<>>
    ELSE IF Len(messages) = 1 THEN messages[1]
    ELSE messages[1] \o <<"\n">> \o fullMessage(Tail(messages))

\* the control after "clear prior validation results"
Undecorated == [highlight |-> {}, icon |-> "", help |-> <<>>, hidden |-> TRUE]

Decorated(tg, relevantBehavior) ==
    [highlight |->
         IF BitAnd(relevantBehavior, HIGHLIGHT) = HIGHLIGHT
         THEN IF tg.state = WARN THEN AddClass({}, HighlightEnum(WARN))
              ELSE IF tg.state = FAIL THEN AddClass({}, HighlightEnum(FAIL))
              ELSE AddClass({}, HighlightEnum(PASS))
         ELSE {},
     icon |->
         IF BitAnd(relevantBehavior, ICON) = ICON
         THEN IF tg.state = PASS THEN IconEnum(PASS)
              ELSE IF tg.state = WARN THEN IconEnum(WARN)
              ELSE IconEnum(FAIL)
         ELSE "",
     help |-> fullMessage(tg.messages),
     hidden |-> BitAnd(relevantBehavior, HELP) # HELP]

LeftBlank(tg) ==
    IF tagName(tg.control) = "SELECT" THEN isEmpty(SelectedText(tg.control))
    ELSE isEmpty(value[tg.control])

\* the slip of decorating a blank field that passed
setValidationResultsOfBlank(tg, submitting) ==
    Decorated(tg, IF submitting THEN submitBehavior ELSE validationBehavior)

\* ValidationTarget.prototype.setValidationResults
setValidationResults(tg, submitting) ==
    IF tg.state = PASS /\ LeftBlank(tg) THEN Undecorated
    ELSE Decorated(tg, IF submitting THEN submitBehavior ELSE validationBehavior)

\* the ValidateEnum and SubmitEnum values the page's author passes
ValidationBehaviors == {NONE, ICON, HIGHLIGHT, ICON + HIGHLIGHT + HELP}
RenderBehaviors == {NONE, HIGHLIGHT + HELP}

InitRender ==
    /\ value = [c \in Controls |-> <<>>]
    /\ disabledAncestor = [c \in Controls |-> FALSE]
    /\ submitBehavior \in RenderBehaviors
    /\ validationBehavior \in ValidationBehaviors
    /\ submitButtons = 0
    /\ clickWired = FALSE
    /\ postValidation = FALSE
    /\ targets = <<>>
    /\ handlers = [p \in Controls \X Events |-> <<>>]
    /\ submitDisabled = FALSE
    /\ trace = <<>>
    /\ ledger = [s \in Slots |-> 0]
    /\ probe = <<>>
    /\ calc = <<>>
    /\ run = <<>>
    /\ view = [c \in Controls |-> Undecorated]

\* the targets a pass of the operation that left m ended on
Ended(m) == {m.trace[i].target : i \in {j \in 1..Len(m.trace) : m.trace[j].ev = "pass"}}

\* what the operation that left m leaves, and on the page what the last
\* setValidationResults of each pass made
Shown(m, submitting) ==
    /\ Committed(m)
    /\ view' = [c \in Controls |->
                   IF HasKey(m.targets, c) /\ c \in Ended(m)
                   THEN setValidationResults(Get(m.targets, c),
                                             submitting /\ ~disabledAncestor[c])
                   ELSE view[c]]
    /\ UNCHANGED <<value, disabledAncestor, ledger>>

\* target.clear(), which ends with setValidationResults(false)
ClearShown(k) ==
    /\ HasKey(targets, k)
    /\ Committed([M0 EXCEPT !.targets = Set(@, k, clear(Get(@, k))),
                            !.trace = <<[ev |-> "clear", target |-> k]>>])
    /\ view' = [view EXCEPT ![k] = setValidationResults(clear(Get(targets, k)), FALSE)]
    /\ UNCHANGED <<value, disabledAncestor, ledger>>

NextRender ==
    \/ \E c \in Controls : \E v \in ValuesOf(c) : SetValue(c, v)
    \/ SetDisabled("c1")
    \/ \E c \in Controls :
           ~Bound(c, Validator_Required) /\ Shown(require(M0, c, Undefined, Undefined), FALSE)
    \/ ~HasKey(targets, "c1") /\ AddTarget("c1")
    \/ \E vf \in {Validator_SSID, Validator_EMail} :
           /\ HasKey(targets, "c1")
           /\ ~Bound("c1", vf)
           /\ AddValidation("c1", "c1", <<"change">>, vf)
           /\ UNCHANGED ledger
    \/ \E c \in Controls : Shown(dispatch(M0, c, "change"), FALSE)
    \/ \E b \in BOOLEAN : Shown(ValidatorValidateAll(M0, b), b)
    \/ \E c \in Controls : ClearShown(c)

SpecRender == InitRender /\ [][NextRender]_vars

(***************************************************************************)
(* SpecFlags: Validators constructed with each of several submitBehavior   *)
(* values, on a page with and without a submit button.                     *)
(***************************************************************************)
SubmitBehaviors ==
    {NONE, SUMMARY, DISABLE, SUMMARY + ICON, DISABLE + HIGHLIGHT,
     SUMMARY + DISABLE}

InitFlags == InitWith(SubmitBehaviors, {0, 1}, {TRUE})

NextFlags ==
    \/ \E v \in ValuesOf("c1") : SetValue("c1", v)
    \/ ~Bound("c1", Validator_Required) /\ Require("c1")
    \/ UnRequire("c1")
    \/ \E e \in Events : Fire("c1", e)
    \/ ClickSubmit
    \/ \E b \in BOOLEAN : ValidateAll(b)

SpecFlags == InitFlags /\ [][NextFlags]_vars

(***************************************************************************)
(* What the claims speak of.                                               *)
(***************************************************************************)
\* the FAIL bit and the WARN bit of a state, read off its binary digits
FailBit(st) == (st \div 2) % 2 = 1
WarnBit(st) == st % 2 = 1

\* the positions of the trace that hold an event of the kind ev
At(ev) == {i \in 1..Len(trace) : trace[i].ev = ev}
Did(ev) == At(ev) # {}

\* the last call of the postValidation function in the trace
LastPost == trace[CHOOSE i \in At("post") : \A j \in At("post") : j <= i]

\* the targets the last operation ran a pass on
Passed == {trace[i].target : i \in At("pass")}

(***************************************************************************)
(* C1.  In every reachable state Validator.state() is the bitwise OR of    *)
(* the states of the targets in the map: its FAIL bit is set exactly when  *)
(* some target's FAIL bit is, its WARN bit exactly when some target's      *)
(* WARN bit is, no other bit is set, and it is PASS for an empty map.      *)
(***************************************************************************)
C1_StateIsOrOfTargets ==
    LET s == ValidatorState(targets) IN
    /\ s \in 0..3
    /\ FailBit(s) <=> \E i \in 1..Len(targets) : FailBit(targets[i].state)
    /\ WarnBit(s) <=> \E i \in 1..Len(targets) : WarnBit(targets[i].state)
    /\ targets = <<>> => s = PASS

\* one target failing only, registered before one warning only
C1_Witness ==
    /\ Len(targets) = 2
    /\ targets[1].state = FAIL
    /\ targets[2].state = WARN
    /\ ValidatorState(targets) = FAIL + WARN

(***************************************************************************)
(* C2.  isValid(event) runs a submitting pass over all targets and returns *)
(* false exactly when some target has the FAIL bit after that pass; then,  *)
(* and only then, it shows the summary and, on the event supplied, calls   *)
(* stopImmediatePropagation and preventDefault.  With warnings only it     *)
(* returns true and leaves the event alone.                                *)
(***************************************************************************)
C2_IsValid ==
    Did("isValid") =>
        LET failing == \E i \in 1..Len(targets) : FailBit(targets[i].state)
            event == trace[1].event
            returned == trace[Len(trace)]
        IN  /\ trace[1].ev = "isValid"
            /\ trace[2] = [ev |-> "validateAll", submitting |-> TRUE]
            /\ Passed = Keys(targets)
            /\ returned.ev = "return"
            /\ returned.value = ~failing
            /\ Did("displayAllErrors") <=> failing
            /\ Did("preventDefault") <=> (failing /\ event)
            /\ Did("stopImmediatePropagation") <=> (failing /\ event)

\* isValid(event) returned true with a warning and no failure among the targets
C2_Witness ==
    /\ Did("isValid")
    /\ trace[1].event
    /\ trace[Len(trace)] = [ev |-> "return", value |-> TRUE]
    /\ \E i \in 1..Len(targets) : targets[i].state = WARN
    /\ ~Did("preventDefault")

(***************************************************************************)
(* C4.  With a postValidation function assigned, every pass over all       *)
(* targets (validateAll) and every pass on one target made by an event     *)
(* handler (validate) calls it exactly once, after the pass; the argument  *)
(* is false when some target has the FAIL bit at that moment and true      *)
(* when none has.                                                          *)
(***************************************************************************)
C4_PostValidation ==
    postValidation =>
        /\ \A i \in At("post") :
               trace[i].arg = ~(\E j \in 1..Len(trace[i].snap) : FailBit(trace[i].snap[j]))
        /\ IF Did("validateAll")
           THEN /\ Cardinality(At("post")) = 1
                /\ \A i \in At("pass") : \A j \in At("post") : i < j
                /\ \A i \in At("validateAll") : \A j \in At("post") : i < j
           ELSE /\ \A i \in At("pass") : i + 1 \in At("post")
                /\ \A j \in At("post") : j - 1 \in At("pass")

\* the function was called with true while a target held a warning
C4_Witness ==
    /\ postValidation
    /\ \E i \in At("post") :
           /\ trace[i].arg = TRUE
           /\ \E j \in 1..Len(trace[i].snap) : trace[i].snap[j] = WARN
    /\ ~Did("validateAll")

(***************************************************************************)
(* C5.  With submitBehavior DISABLE, after every validation pass the       *)
(* submit buttons carry the class 'disabled' exactly when some target has  *)
(* the FAIL bit.                                                           *)
(***************************************************************************)
C5_DisabledWhenFailing ==
    (submitBehavior = DISABLE /\ submitButtons > 0 /\ Did("post")) =>
        (submitDisabled <=>
            \E j \in 1..Len(LastPost.snap) : FailBit(LastPost.snap[j]))

(***************************************************************************)
(* C6.  The submit-mode flags act as independent bits: the click handler   *)
(* that calls isValid is wired whenever the SUMMARY bit is set, and the    *)
(* submit buttons' class is managed by post whenever the DISABLE bit is    *)
(* set, whichever other bits are set.                                      *)
(***************************************************************************)
C6_SummaryBitWires ==
    (submitButtons > 0 /\ BitAnd(submitBehavior, SUMMARY) = SUMMARY) => clickWired

C6_DisableBitManages ==
    (submitButtons > 0 /\ BitAnd(submitBehavior, DISABLE) = DISABLE /\ Did("post")) =>
        (submitDisabled <=> LastPost.arg)

C6_FlagsAreBits == C6_SummaryBitWires /\ C6_DisableBitManages

(***************************************************************************)
(* C7.  A target whose only rule is Validator_Required and whose control   *)
(* is not under a disabled ancestor is, after a pass, FAIL exactly when    *)
(* the control's value (for a SELECT, the selected option's text) has      *)
(* nothing but whitespace in it, and PASS otherwise.                       *)
(***************************************************************************)
OnlyRequired(k) ==
    /\ Len(Get(targets, k).validations) = 1
    /\ Get(targets, k).validations[1].key = Validator_Required

Blank(str) == \A i \in 1..Len(str) : str[i] = " "

Entered(c) == IF tagName(c) = "SELECT" THEN SelectedText(c) ELSE value[c]

C7_RequiredOnly ==
    \A k \in Passed :
        (HasKey(targets, k) /\ ~disabledAncestor[k]) =>
            (OnlyRequired(k) =>
                Get(targets, k).state = IF Blank(Entered(k)) THEN FAIL ELSE PASS)

\* a pass left the input, holding a space, FAIL and the select, showing text, PASS
C7_Witness ==
    /\ Passed = {"c1", "c2"}
    /\ Keys(targets) = {"c1", "c2"}
    /\ OnlyRequired("c1") /\ OnlyRequired("c2")
    /\ ~disabledAncestor["c1"]
    /\ value["c1"] = <<" ">> /\ Get(targets, "c1").state = FAIL
    /\ value["c2"] = <<>> /\ Get(targets, "c2").state = PASS

(***************************************************************************)
(* C8.  A pass is memoryless and idempotent: what validateAll leaves in    *)
(* the targets does not depend on the state and messages they held before  *)
(* it, and a second validateAll right after the first changes nothing.     *)
(***************************************************************************)
Stale ==
    { [state |-> PASS, messages |-> <<>>],
      [state |-> FAIL, messages |-> << <<"Error: ", "stale">> >>],
      [state |-> FAIL + WARN,
       messages |-> << <<"Warning: ", "stale">>, <<"Error: ", "stale">> >>] }

Holding(m, old) ==
    [m EXCEPT !.targets =
        [i \in 1..Len(m.targets) |->
            [m.targets[i] EXCEPT !.state = old.state, !.messages = old.messages]]]

C8_Memoryless ==
    /\ \A b \in BOOLEAN : \A old \in Stale :
           ValidatorValidateAll(Holding(M0, old), b).targets
               = ValidatorValidateAll(M0, b).targets
    /\ Did("validateAll") =>
           \A b \in BOOLEAN : ValidatorValidateAll(M0, b).targets = targets

\* validateAll left a target with two messages
C8_Witness ==
    /\ Did("validateAll")
    /\ \E i \in 1..Len(targets) : Len(targets[i].messages) = 2

(***************************************************************************)
(* C9.  After a removal that leaves a target without validations the       *)
(* target is no longer in the Validator's targets map.                     *)
(*                                                                         *)
(* C9_Original states it of removeValidation called on the target and of   *)
(* removeControlFunction and unRequire called on the Validator;            *)
(* C9_Disposed states it of the latter two, and that the former leaves the *)
(* target in the map, cleared to PASS.                                     *)
(***************************************************************************)
NotLeftEmpty(c) ==
    HasKey(targets, c) => Len(Get(targets, c).validations) > 0

C9_Original ==
    \A i \in At("removeValidation") \cup At("removeControlFunction") \cup At("unRequire") :
        NotLeftEmpty(trace[i].target)

C9_Disposed ==
    /\ \A i \in At("removeControlFunction") \cup At("unRequire") :
           NotLeftEmpty(trace[i].target)
    /\ \A i \in At("removeValidation") :
           /\ HasKey(targets, trace[i].target)
           /\ Len(Get(targets, trace[i].target).validations) = 0
                  => Get(targets, trace[i].target).state = PASS

\* a removal ran its pass on a target and took the target out of the map
C9_Witness ==
    /\ Did("removeControlFunction")
    /\ \E c \in Passed : ~HasKey(targets, c)

(***************************************************************************)
(* C3.  Reference counting: when a rule holds two references to a          *)
(* (trigger, event) pair (it was added twice for the pair), one            *)
(* removeValidation for the pair leaves the rule in the target's           *)
(* validations and the event on the trigger still runs it; when the pairs  *)
(* being removed are the pairs the rule holds, one reference each, the     *)
(* rule is no longer in the validations and the event no longer runs it.   *)
(* A step is a removeValidation call exactly when the trace it leaves      *)
(* opens with the call.                                                    *)
(***************************************************************************)
Removal(k, triggerControl, events, vf) ==
    [ev |-> "removeValidation", target |-> k, trigger |-> triggerControl,
     events |-> events, rule |-> vf]

RefCount(k, vf) ==
    IF Bound(k, vf) THEN Get(Get(targets, k).validations, vf).refCount ELSE EmptyMap

\* the event on the trigger control runs the rule's method on the target
Runs(triggerControl, event, k, vf) ==
    LET ran == dispatch(M0, triggerControl, event).trace IN
    \E i \in 1..Len(ran) : ran[i] = [ev |-> "call", target |-> k, rule |-> vf]

C3_ReferenceCounted ==
    [][\A t \in Controls : \A events \in EventLists :
           (trace' # <<>> /\ trace'[1] = Removal("c1", t, events, Validator_Required)) =>
               LET refCount == RefCount("c1", Validator_Required) IN
               /\ \A i \in 1..Len(events) :
                      (/\ <<t, events[i]>> \in DOMAIN refCount
                       /\ refCount[<<t, events[i]>>] = 2)
                          => /\ Bound("c1", Validator_Required)'
                             /\ Runs(t, events[i], "c1", Validator_Required)'
               /\ (/\ DOMAIN refCount = {<<t, events[i]>> : i \in 1..Len(events)}
                   /\ \A p \in DOMAIN refCount : refCount[p] = 1)
                      => /\ ~Bound("c1", Validator_Required)'
                         /\ \A i \in 1..Len(events) :
                                ~Runs(t, events[i], "c1", Validator_Required)']_vars

\* added twice for c2's keyup and removed once: still bound, still run
C3_Witness ==
    /\ trace # <<>>
    /\ trace[1] = Removal("c1", "c2", <<"keyup">>, Validator_Required)
    /\ ledger[<<"c1", Validator_Required, "c2", "keyup">>] = 1
    /\ RefCount("c1", Validator_Required) = (<<"c2", "keyup">> :> 1)
    /\ Runs("c2", "keyup", "c1", Validator_Required)

(***************************************************************************)
(* C10.  A rule is in a target's validations exactly when the caller       *)
(* holds a reference to one of its (trigger, event) pairs, whatever        *)
(* other removeValidation calls were made.                                 *)
(***************************************************************************)
C10_PresentIffReferenced ==
    HasKey(targets, "c1") =>
        (Bound("c1", Validator_Required) <=>
            \E t \in Controls : \E e \in Events :
                ledger[<<"c1", Validator_Required, t, e>>] > 0)

(***************************************************************************)
(* C11.  addTarget, for a new or an existing control identity, leaves the  *)
(* state and the messages of every target already in the map as they were, *)
(* so a FAIL bit in Validator.state() before the call is there after it.   *)
(***************************************************************************)
IsAddTarget ==
    \E c \in Elements : \E a \in TargetArgs :
        AddNamedTarget(c, a.name, a.indicatorControl)

C11_AddTargetKeepsFailing ==
    [][IsAddTarget =>
          /\ \A i \in 1..Len(targets) :
                 /\ HasKey(targets', targets[i].key)
                 /\ Get(targets', targets[i].key).state = targets[i].state
                 /\ Get(targets', targets[i].key).messages = targets[i].messages
          /\ FailBit(ValidatorState(targets)) => FailBit(ValidatorState(targets'))]_vars

\* a target added, untouched since, after a target that is failing
C11_Witness ==
    /\ Len(targets) = 2
    /\ FailBit(targets[1].state)
    /\ targets[2].state = PASS /\ targets[2].validations = <<>>
    /\ trace = <<>>
    /\ FailBit(ValidatorState(targets))

(***************************************************************************)
(* C12.  addTarget is idempotent per control identity (id, else name):     *)
(* the map holds one target per identity addTarget was called for; a call  *)
(* for an identity the map holds leaves the map as it is, whatever name    *)
(* and indicator the call gives, and a call for a new identity appends     *)
(* one target of that identity.                                            *)
(***************************************************************************)
C12_AddTargetIdempotent ==
    [][\A c \in Elements : \A a \in TargetArgs :
           AddNamedTarget(c, a.name, a.indicatorControl) =>
               /\ Keys(targets') = Keys(targets) \cup {Identity(c)}
               /\ \A i, j \in 1..Len(targets') :
                      targets'[i].key = targets'[j].key => i = j
               /\ HasKey(targets, Identity(c)) => targets' = targets
               /\ ~HasKey(targets, Identity(c)) =>
                      /\ Len(targets') = Len(targets) + 1
                      /\ \A i \in 1..Len(targets) : targets'[i] = targets[i]]_vars

\* the map holds the one target of the name the two radio buttons share, made
\* for r1 without a name, with the Required rule's failure on the input's target
C12_Witness ==
    /\ Keys(targets) = {"c1", "choice"}
    /\ Get(targets, "choice").control = "r1"
    /\ Get(targets, "choice").name = <<"choice">>
    /\ Len(Get(targets, "c1").validations) = 1
    /\ Get(targets, "c1").name = <<"First">>

(***************************************************************************)
(* C13.  require and unRequire are a round trip.  require(control) on a    *)
(* control that is empty, and on which Required is not bound yet, leaves   *)
(* the control's target FAIL, with no event from the user, and Required    *)
(* bound once to the control's keyup and once to its change; unRequire     *)
(* then, when Required is the target's only rule, takes the rule and the   *)
(* target away, and the cumulative state is that of the other targets.     *)
(*                                                                         *)
(* C13_AnyControl states it of every control, C13_RoundTrip of the         *)
(* controls that are not under a disabled ancestor.                        *)
(***************************************************************************)
Without(tgs, k) == IF HasKey(tgs, k) THEN Delete(tgs, k) ELSE tgs

RoundTrip(c) ==
    LET r == require(M0, c, Undefined, Undefined)
        required == Get(r.targets, c)
        u == unRequire([r EXCEPT !.trace = <<>>], c)
    IN  /\ FailBit(required.state)
        /\ FailBit(ValidatorState(r.targets))
        /\ HasKey(required.validations, Validator_Required)
        /\ Get(required.validations, Validator_Required).refCount
               = (<<c, "keyup">> :> 1) @@ (<<c, "change">> :> 1)
        /\ \A e \in Events :
               \E i \in 1..Len(r.handlers[<<c, e>>]) : r.handlers[<<c, e>>][i] = c
        /\ Len(required.validations) = 1 =>
               /\ ~HasKey(u.targets, c)
               /\ u.targets = Without(targets, c)
               /\ ValidatorState(u.targets) = ValidatorState(Without(targets, c))
               /\ \A e \in Events :
                      \A i \in 1..Len(u.handlers[<<c, e>>]) : u.handlers[<<c, e>>][i] # c

C13_AnyControl ==
    \A c \in Controls :
        (Blank(Entered(c)) /\ ~Bound(c, Validator_Required)) => RoundTrip(c)

C13_RoundTrip ==
    \A c \in Controls :
        (Blank(Entered(c)) /\ ~Bound(c, Validator_Required) /\ ~disabledAncestor[c])
            => RoundTrip(c)

\* unRequire took the empty input's target out of the map; the select's target,
\* required and showing text, stays, and nothing fails
C13_Witness ==
    /\ trace # <<>> /\ trace[1].ev = "unRequire" /\ trace[1].target = "c1"
    /\ "c1" \in Passed
    /\ Blank(Entered("c1")) /\ ~disabledAncestor["c1"]
    /\ Keys(targets) = {"c2"}
    /\ ~FailBit(ValidatorState(targets))

(***************************************************************************)
(* C14.  With no date-window attribute on the control the window is 50:    *)
(* normalizeDate makes of a year below 50 the year 2000 + y ("49" gives    *)
(* 2049), of a year from 50 to 99 the year 1900 + y ("51" gives 1951),     *)
(* and leaves a year from 100 on as it is.                                 *)
(***************************************************************************)
Typed == rxMatch(probe.data)

C14_DefaultWindow ==
    (probe # <<>> /\ probe.called /\ probe.window = Undefined /\ Typed # <<>>) =>
        LET y == parseInt(Typed[3]) IN
        probe.parts.y = IF y < 50 THEN 2000 + y
                        ELSE IF y < 100 THEN 1900 + y
                        ELSE y

(***************************************************************************)
(* C15.  isDate returns true only for a date of the calendar: for a string *)
(* of three numbers it returns true only if the month is in 1..12 and the  *)
(* day in 1..(days of that month in the windowed year); 1/41/2015,         *)
(* 13/01/2015 and 2/30 of any year are rejected, 02/10/2015 is accepted.   *)
(***************************************************************************)
MonthLengths == <<31, 28, 31, 30, 31, 30, 31, 31, 30, 31, 30, 31>>

OnCalendar(m, d, y) ==
    /\ m \in 1..12
    /\ d >= 1
    /\ d <= MonthLengths[m]
              + (IF m = 2 /\ y % 4 = 0 /\ (y % 100 # 0 \/ y % 400 = 0) THEN 1 ELSE 0)

Cuts(str) == {0, Len(str) + 1} \cup {i \in 1..Len(str) : str[i] = ";"}

Pieces(str) ==
    { SubSeq(str, a + 1, b - 1) :
          <<a, b>> \in { c \in Cuts(str) \X Cuts(str) :
                            c[1] < c[2] /\ \A i \in Cuts(str) : ~(c[1] < i /\ i < c[2]) } }

Rejected(str) == { Trim(piece) : piece \in { q \in Pieces(str) : ~patt(Trim(q)) } }

EMailOnly(k) ==
    /\ HasKey(targets, k)
    /\ k \in Passed
    /\ ~disabledAncestor[k]
    /\ Len(Get(targets, k).validations) = 1
    /\ Get(targets, k).validations[1].key = Validator_EMail

C16_EMailSegments ==
    EMailOnly("c1") =>
        LET tg == Get(targets, "c1")
            email == value["c1"]
        IN  /\ Cardinality(Cuts(email)) > 2 =>
                   /\ tg.state = IF Rejected(email) = {} THEN PASS ELSE FAIL
                   /\ {tg.messages[i] : i \in 1..Len(tg.messages)}
                          = { <<"Error: ">> \o piece \o <<" is not a valid email address.">> :
                                  piece \in Rejected(email) }
                   /\ Len(tg.messages) = Cardinality(Rejected(email))
            /\ (Cardinality(Cuts(email)) = 2 /\ patt(email)) =>
                   tg.state = PASS /\ tg.messages = <<>>

\* "bad; bad ;a@b.com": one message for the piece that is there twice
C16_Witness ==
    /\ EMailOnly("c1")
    /\ value["c1"] = Bad1 \o <<";", " ">> \o Bad1 \o <<" ", ";">> \o Addr1
    /\ Get(targets, "c1").state = FAIL
    /\ Get(targets, "c1").messages
           = << <<"Error: ">> \o Bad1 \o <<" is not a valid email address.">> >>

(***************************************************************************)
(* C17.  Read as written: when the cumulative state holds a warning and    *)
(* no failure, postValidation receives the value it receives when some     *)
(* target has the FAIL bit (false).                                        *)
(***************************************************************************)
WarnOnly(states) ==
    /\ \E j \in 1..Len(states) : WarnBit(states[j])
    /\ \A j \in 1..Len(states) : ~FailBit(states[j])

C17_WarnCountsAsFailure ==
    postValidation =>
        \A i \in At("post") : WarnOnly(trace[i].snap) => trace[i].arg = FALSE

(***************************************************************************)
(* C17, as the code has it.  The post-hook tests the FAIL bit alone: with  *)
(* a warning and no failure postValidation receives true, the value of a   *)
(* pass with no warning either, and not the false it receives when a       *)
(* target has FAIL; isValid in that state returns true as well.            *)
(***************************************************************************)
C17_PostTestsFailBit ==
    /\ postValidation =>
           \A i \in At("post") :
               /\ WarnOnly(trace[i].snap) => trace[i].arg = TRUE
               /\ (\E j \in 1..Len(trace[i].snap) : FailBit(trace[i].snap[j]))
                      => trace[i].arg = FALSE
    /\ (Did("isValid") /\ WarnOnly([i \in 1..Len(targets) |-> targets[i].state]))
           => trace[Len(trace)] = [ev |-> "return", value |-> TRUE]

\* isValid ran with a warning and no failure: the hook got true, and so did
\* the caller
C17_Witness ==
    /\ postValidation
    /\ Did("isValid")
    /\ Did("post")
    /\ WarnOnly(LastPost.snap)
    /\ LastPost.arg = TRUE
    /\ trace[Len(trace)] = [ev |-> "return", value |-> TRUE]

(***************************************************************************)
(* C18.  A click on +, -, * or / copies the accumulator into the register, *)
(* records the operator and resets the accumulator to 0 with the decimal   *)
(* flag cleared; a click on '=' with an operator recorded puts             *)
(* register op accumulator into the register and on the display and        *)
(* leaves the accumulator and the operator as they were, so that a         *)
(* further '=' applies the same operator and operand to the result.        *)
(* A division by zero, which the calculator reports instead, is left out.  *)
(***************************************************************************)
Applied(o, x, y) ==
    IF o = "+" THEN Plus(x, y)
    ELSE IF o = "-" THEN Minus(x, y)
    ELSE IF o = "*" THEN Times(x, y)
    ELSE Over(x, y)

OperatorClicked ==
    calc'.click \in OpKeys =>
        /\ calc'.reg = calc.acc
        /\ calc'.op = calc'.click
        /\ calc'.acc = Number(0, 1)
        /\ calc'.decimal = FALSE

EqualsClicked ==
    (/\ calc'.click = "="
     /\ calc.op \in OpKeys
     /\ ~(calc.op = "/" /\ ToNumber(calc.acc) = Number(0, 1))) =>
        /\ calc'.acc = calc.acc
        /\ calc'.op = calc.op
        /\ calc'.reg = Applied(calc.op, ToNumber(calc.reg), ToNumber(calc.acc))
        /\ calc'.display = calc'.reg

C18_OperatorThenEquals == [][OperatorClicked /\ EqualsClicked]_vars

(***************************************************************************)
(* C19.  When the outermost validateAll of a target whose control is not   *)
(* under a disabled ancestor has returned, the function of every rule of   *)
(* the target has been called exactly once since it was entered, also      *)
(* when a rule's function fired a trigger event of the target meanwhile.   *)
(***************************************************************************)
C19_EachRuleOnce ==
    (run.done /\ ~run.disabled) => \A i \in 1..Entries : run.calls[i] = 1

(***************************************************************************)
(* C20.  No rule's function is in progress twice on the call stack of a    *)
(* target's pass, however often the function fires a trigger event.        *)
(***************************************************************************)
C20_NeverActiveTwice ==
    \A i, j \in 1..Len(run.stack) :
        (/\ i < j
         /\ run.stack[i].f = "method"
         /\ run.stack[j].f = "method") => run.stack[i].v # run.stack[j].v

(***************************************************************************)
(* C21.  As long as a rule of a target holds a count of at least one for   *)
(* an event of a trigger control, the target's validate is bound to that   *)
(* event of that control: taking back another rule's last reference to     *)
(* the same pair, of this target or of another, does not unbind it.        *)
(***************************************************************************)
Listening(k, c, e) == \E i \in 1..Len(handlers[<<c, e>>]) : handlers[<<c, e>>][i] = k

Referenced(tg, c, e) ==
    \E i \in 1..Len(tg.validations) :
        /\ <<Identity(c), e>> \in DOMAIN tg.validations[i].refCount
        /\ tg.validations[i].refCount[<<Identity(c), e>>] # NaN
        /\ tg.validations[i].refCount[<<Identity(c), e>>] >= 1

C21_BoundWhileReferenced ==
    \A i \in 1..Len(targets) : \A c \in Controls : \A e \in Events :
        Referenced(targets[i], c, e) => Listening(targets[i].key, c, e)

(***************************************************************************)
(* C22.  A pass on a target whose control lies beneath an ancestor with    *)
(* class 'disabled' calls none of the target's rules and leaves the target *)
(* PASS with no message, whatever the control's value and whatever state   *)
(* and messages the target held before.                                    *)
(***************************************************************************)
CallsOn(tr, k) == {i \in 1..Len(tr) : tr[i].ev = "call" /\ tr[i].target = k}

C22_DisabledNeverEvaluated ==
    \A i \in 1..Len(targets) :
        disabledAncestor[targets[i].control] =>
            /\ targets[i].key \in Passed =>
                   /\ CallsOn(trace, targets[i].key) = {}
                   /\ targets[i].state = PASS
                   /\ targets[i].messages = <<>>
            /\ \A old \in Stale : \A b \in BOOLEAN :
                   LET r == TargetValidateAll(Holding(M0, old), targets[i].key, b) IN
                   /\ CallsOn(r.trace, targets[i].key) = {}
                   /\ r.targets[i].state = PASS
                   /\ r.targets[i].messages = <<>>

\* a pass on the input beneath a disabled ancestor: Required and the lookup
\* are bound, the value is blank, and the target is left PASS
C22_Witness ==
    /\ disabledAncestor["c1"]
    /\ "c1" \in Passed
    /\ HasKey(targets, "c1")
    /\ Len(Get(targets, "c1").validations) = 2
    /\ value["c1"] = <<" ">>
    /\ Get(targets, "c1").state = PASS

(***************************************************************************)
(* C23.  fail(m) sets the FAIL bit and warn(m) the WARN bit and leave the  *)
(* other bit as it was, so a target that received both is FAIL|WARN; each  *)
(* call appends its message, prefixed 'Error: ' or 'Warning: ', after the  *)
(* messages already held unless the list holds that very string, and no    *)
(* list holds a string twice.                                              *)
(***************************************************************************)
Holds(messages, text) == \E i \in 1..Len(messages) : messages[i] = text

NoneTwice(messages) ==
    \A i, j \in 1..Len(messages) : messages[i] = messages[j] => i = j

Accumulated(old, new, bit, text) ==
    /\ BitAnd(new.state, bit) = bit
    /\ BitAnd(new.state, FAIL + WARN - bit) = BitAnd(old.state, FAIL + WARN - bit)
    /\ new.state \in {WARN, FAIL, FAIL + WARN}
    /\ new.messages = IF Holds(old.messages, text) THEN old.messages
                      ELSE Append(old.messages, text)
    /\ NoneTwice(new.messages)

C23_FailWarnAccumulate ==
    [][\A c \in Controls : \A msg \in DirectMessages :
           /\ Fail(c, msg) =>
                  Accumulated(Get(targets, c), Get(targets', c), FAIL,
                              <<"Error: ">> \o msg)
           /\ Warn(c, msg) =>
                  Accumulated(Get(targets, c), Get(targets', c), WARN,
                              <<"Warning: ">> \o msg)]_vars

\* the input's target was warned and then failed with the same text
C23_Witness ==
    /\ HasKey(targets, "c1")
    /\ Get(targets, "c1").state = FAIL + WARN
    /\ Get(targets, "c1").messages = << <<"Warning: ", "m">>, <<"Error: ", "m">> >>

(***************************************************************************)
(* C24.  After the rendering of a pass whose mode (submitBehavior when     *)
(* submitting, validationBehavior otherwise) includes HIGHLIGHT, a control *)
(* whose target has the FAIL bit carries the class HighlightEnum.FAIL,     *)
(* also when the WARN bit is set; one whose target is WARN alone carries   *)
(* HighlightEnum.WARN; one whose target is PASS carries neither.           *)
(***************************************************************************)
Submitting == \E i \in At("validateAll") : trace[i].submitting

ActiveMode == IF Submitting THEN submitBehavior ELSE validationBehavior

C24_HighlightKeyedToStatus ==
    \A c \in Controls :
        (HasKey(targets, c) /\ c \in Passed /\ BitAnd(ActiveMode, HIGHLIGHT) = HIGHLIGHT) =>
            LET st == Get(targets, c).state IN
            /\ BitAnd(st, FAIL) = FAIL => HighlightEnum(FAIL) \in view[c].highlight
            /\ st = WARN => HighlightEnum(WARN) \in view[c].highlight
            /\ st = PASS =>
                   view[c].highlight \cap {HighlightEnum(FAIL), HighlightEnum(WARN)} = {}

(***************************************************************************)
(* C25.  After a rendering of a target whose state is PASS and whose       *)
(* control is blank (the selected option's text for a SELECT, the value    *)
(* otherwise), the control has no highlight class, the indicator no icon,  *)
(* and the help element is empty and hidden, whatever the two behaviours.  *)
(***************************************************************************)
Rendered == Passed \cup {trace[i].target : i \in At("clear")}

C25_CleanBlankShowsNothing ==
    \A c \in Controls :
        (HasKey(targets, c) /\ c \in Rendered /\ Get(targets, c).state = PASS
            /\ LeftBlank(Get(targets, c))) =>
            /\ view[c].highlight = {}
            /\ view[c].icon = ""
            /\ view[c].help = <<>>
            /\ view[c].hidden

\* a pass on the input with every display flag set: the rules bound return
\* at once on a blank value, and the target is left PASS
C25_Witness ==
    /\ "c1" \in Passed
    /\ CallsOn(trace, "c1") # {}
    /\ HasKey(targets, "c1")
    /\ Get(targets, "c1").state = PASS
    /\ value["c1"] = <<" ">>
    /\ ~disabledAncestor["c1"]
    /\ validationBehavior = ICON + HIGHLIGHT + HELP
    /\ ~Submitting

(***************************************************************************)
(* C26.  When the validateAll the page called on a target returns, the     *)
(* target has the FAIL bit if a rule's function called fail on it during   *)
(* the pass, and its list holds the message of every such call, also when  *)
(* a rule called change() and so caused a nested pass on the target.       *)
(***************************************************************************)
C26_NoSignalLost ==
    (run.done /\ run.signalled # {}) =>
        /\ BitAnd(run.state, FAIL) = FAIL
        /\ run.signalled \subseteq run.messages

(***************************************************************************)
(* C27.  In every reachable state, for every target: the state is PASS     *)
(* exactly when the message list is empty, the FAIL bit is set exactly     *)
(* when the list holds a message that starts with 'Error: ', and the WARN  *)
(* bit exactly when it holds one that starts with 'Warning: '.             *)
(***************************************************************************)
StartsWith(message, prefix) ==
    /\ Len(message) >= Len(prefix)
    /\ SubSeq(message, 1, Len(prefix)) = prefix

HoldsPrefixed(messages, prefix) ==
    \E i \in 1..Len(messages) : StartsWith(messages[i], prefix)

C27_StatusAgreesWithMessages ==
    \A i \in 1..Len(targets) :
        /\ targets[i].state = PASS <=> targets[i].messages = <<>>
        /\ BitAnd(targets[i].state, FAIL) = FAIL
               <=> HoldsPrefixed(targets[i].messages, <<"Error: ">>)
        /\ BitAnd(targets[i].state, WARN) = WARN
               <=> HoldsPrefixed(targets[i].messages, <<"Warning: ">>)

\* the input failed Required in a pass and was then warned: both bits, the
\* rule's error first; the select is PASS with no message
C27_Witness ==
    /\ HasKey(targets, "c1")
    /\ HasKey(targets, "c2")
    /\ Get(targets, "c1").state = FAIL + WARN
    /\ Len(Get(targets, "c1").messages) = 2
    /\ StartsWith(Get(targets, "c1").messages[1], <<"Error: ", "First">>)
    /\ Get(targets, "c1").messages[2] = <<"Warning: ", "m">>
    /\ Get(targets, "c2").state = PASS

(***************************************************************************)
(* C28.  After any sequence of addValidation and removeValidation calls,   *)
(* removals of pairs never added for the rule included, every entry of a   *)
(* rule's refCount map is an integer of at least 1, and every rule in      *)
(* validations has at least one entry in its refCount map.                 *)
(***************************************************************************)
C28_RefCountsWellFormed ==
    \A i \in 1..Len(targets) : \A j \in 1..Len(targets[i].validations) :
        LET refCount == targets[i].validations[j].refCount IN
        /\ \A eventId \in DOMAIN refCount :
               refCount[eventId] # NaN /\ refCount[eventId] \in Nat /\ refCount[eventId] >= 1
        /\ Size(refCount) >= 1

(***************************************************************************)
(* C29.  In every reachable state of the calculator the decimal flag is    *)
(* true exactly when the accumulator's text holds a decimal point, and the *)
(* text never holds more than one; so a digit typed after '.' follows the  *)
(* point ('.' and '5' typed into a cleared accumulator leave 0.5).         *)
(***************************************************************************)
AccText(c) == IF c.acc.t = "string" THEN c.acc.s ELSE ToDigits(c.acc.n)

Points(text) == Cardinality({i \in 1..Len(text) : text[i] = "."})

C29_DecimalFlagTracksPoint ==
    /\ calc.decimal <=> Points(AccText(calc)) >= 1
    /\ Points(AccText(calc)) <= 1

(***************************************************************************)
(* C30.  For non-negative integers a and b up to MaxOperand, entered digit *)
(* by digit into the cleared calculator, the clicks 'a op b =' leave a + b *)
(* on the display for '+', a - b for '-' and a * b for '*'; with no        *)
(* operator chosen, '=' leaves the accumulator on the display.             *)
(***************************************************************************)
C30_IntegerArithmetic ==
    probe.buttons = <<>> =>
        /\ probe.op = "+" => calc.display = Number(probe.a + probe.b, 1)
        /\ probe.op = "-" => calc.display = Number(probe.a - probe.b, 1)
        /\ probe.op = "*" => calc.display = Number(probe.a * probe.b, 1)
        /\ probe.op = "" =>
               /\ calc.display = calc.acc
               /\ ToNumber(calc.display) = Number(probe.a, 1)

\* 5 - 12 = has been clicked and the display shows -7
C30_Witness ==
    /\ probe.buttons = <<>>
    /\ calc.click = "="
    /\ probe.a = 5 /\ probe.b = 12 /\ probe.op = "-"
    /\ calc.reg = Number(0 - 7, 1)
    /\ calc.display = calc.reg

(***************************************************************************)
(* C31.  A click on '=' with operator '/' and an accumulator whose value   *)
(* is 0 divides nothing, sets the error flag and displays 'Divide by       *)
(* zero.'; no other click sets the flag; while it is set, a number click   *)
(* first resets the calculator (operator empty, accumulator 0, decimal     *)
(* false, error false) and then enters its digit, and 'C' clears the flag. *)
(***************************************************************************)
DivideByZero == calc.op = "/" /\ ToNumber(calc.acc) = Number(0, 1)

DividedByZero ==
    (calc'.click = "=" /\ DivideByZero) =>
        /\ calc'.err
        /\ calc'.display = String(<<"Divide by zero.">>)
        /\ calc'.reg = String(<<"Divide by zero.">>)
        /\ calc'.acc = calc.acc
        /\ calc'.op = calc.op

ErrorSetOnlyThere ==
    (~calc.err /\ calc'.err) => (calc'.click = "=" /\ DivideByZero)

\* the digit entered into a calculator just reset: '0' leaves the number 0,
\* '.' gives '0.', any other digit replaces the 0
EnteredAfresh(num) ==
    IF num = "0" THEN [acc |-> Number(0, 1), decimal |-> FALSE]
    ELSE IF num = "." THEN [acc |-> String(<<"0", ".">>), decimal |-> TRUE]
    ELSE [acc |-> String(<<num>>), decimal |-> FALSE]

NumberClickedOnError ==
    (calc.err /\ calc'.click \in NumberKeys) =>
        /\ ~calc'.err
        /\ calc'.op = ""
        /\ calc'.acc = EnteredAfresh(calc'.click).acc
        /\ calc'.decimal = EnteredAfresh(calc'.click).decimal
        /\ calc'.display = calc'.acc

ClearedOnError ==
    (calc.err /\ calc'.click = "C") =>
        /\ ~calc'.err
        /\ calc'.op = ""
        /\ calc'.acc = Number(0, 1)
        /\ ~calc'.decimal

C31_DivideByZero ==
    [][DividedByZero /\ ErrorSetOnlyThere /\ NumberClickedOnError /\ ClearedOnError]_vars

\* '=' has just been clicked on a division by an accumulator typed as '0.'
C31_Witness ==
    /\ calc.err
    /\ calc.click = "="
    /\ calc.op = "/"
    /\ calc.acc = String(<<"0", ".">>)
    /\ calc.display = String(<<"Divide by zero.">>)

(***************************************************************************)
(* C32.  After a click on 'C' in any reachable state the display shows 0,  *)
(* and every later sequence of number and operator clicks shows what the   *)
(* same clicks show on the freshly loaded calculator: the register left    *)
(* over from before the 'C' is never seen.                                 *)
(***************************************************************************)
C32_ClearRestoresInitial ==
    /\ calc.click = "C" => calc.display = Number(0, 1)
    /\ Shadowing => calc.display = probe.display

\* 'C' was clicked on a calculator that had shown the division error, and
\* now '5': the registers of the two differ, the displays do not
C32_Witness ==
    /\ Shadowing
    /\ calc.click = "5"
    /\ calc.reg = String(<<"Divide by zero.">>)
    /\ probe.reg = UndefinedValue
    /\ calc.display = String(<<"5">>)

====
